---- MODULE Spec2Model ----
(***************************************************************************)
(* A model of doubaoime_asr: the streaming session engine of asr.py        *)
(* (session initialisation, the sender and receiver tasks, the consumer    *)
(* loop of transcribe_stream / transcribe_realtime) and the secure channel *)
(* of wave_client.py (handshake, session expiry, ChaCha20 protection).     *)
(***************************************************************************)
EXTENDS Integers, Sequences, FiniteSets, TLC

VARIABLES
    mode,          \* "file" (transcribe_stream) or "live" (transcribe_realtime)
    request_id,    \* _SessionState.request_id
    final_text,    \* _SessionState.final_text
    srcRead,       \* live mode: bytes the audio source has yielded so far
    nframes,       \* file mode: len(opus_frames)
    srcLeft,       \* live mode: chunks the audio source has still to yield
    is_finished,   \* _SessionState.is_finished
    error,         \* _SessionState.error: 0 (None) or the index in inbound of the event
    sent,          \* the messages written to the transport, in order
    inbound,       \* the responses read from the transport and parsed, in order
    initRead,      \* how many of inbound were read by _initialize_session
    queue,         \* response_queue: indices into inbound, 0 is the None sentinel
    delivered,     \* indices into inbound of the events yielded to the caller
    callerPc,      \* position of the transcribe_* generator
    endedBy,       \* how the consumer loop was left
    outcome,       \* "none", "ended" (iteration stopped) or "raised"
    senderPc,      \* position of the send task
    frame_index,   \* the sender's i / frame_index
    pcm_buffer,    \* live mode: pcm_buffer, the bytes named by their place in the source
    recvPc,        \* position of the receive task
    wsClosed,      \* the transport was closed
    waited,        \* file mode: time the current queue pull has waited
    sinceRecv,     \* time since the receiver last queued a message (capped)
    raisedWith,    \* the response the raised ASRError carries: index in inbound, 0 none
    wave,          \* the WaveClient: cached session, clock, last protect call
    crypt,         \* inputs and results of one _chacha20_crypt round trip
    parse,         \* one call of _parse_response: the message and what came out
    pcm,           \* one call of pcm_to_opus_frames: the input, the offset, the frames
    trans,         \* one call of DoubaoASR.transcribe over an event stream
    ner            \* concurrent get_ner_results calls on the WaveClient of one ASRConfig

sessionVars == <<mode, request_id, final_text, srcRead, nframes, srcLeft, is_finished, error, sent, inbound, initRead,
                 queue, delivered, callerPc, endedBy, outcome, senderPc, frame_index,
                 pcm_buffer, recvPc, wsClosed, waited, sinceRecv, raisedWith>>
vars == <<mode, request_id, final_text, srcRead, nframes, srcLeft, is_finished, error, sent, inbound, initRead,
          queue, delivered, callerPc, endedBy, outcome, senderPc, frame_index,
          pcm_buffer, recvPc, wsClosed, waited, sinceRecv, raisedWith, wave, crypt,
          parse, pcm, trans, ner>>

-----------------------------------------------------------------------------
(* Bounds of the model *)

\* file mode: the audio has 0..MaxFrames opus frames
MaxFrames == 3
\* live mode: the source yields at most MaxChunks chunks
MaxChunks == 2
\* live mode: a chunk holds 1..MaxChunkBytes bytes
MaxChunkBytes == 3
\* bytes_per_frame = samples_per_frame * 2, scaled down
BytesPerFrame == 2
\* the server sends at most MaxServerMsgs messages in one session
MaxServerMsgs == 4
\* config.recv_timeout in clock ticks
RecvTimeout == 2

Min(a, b) == IF a < b THEN a ELSE b

-----------------------------------------------------------------------------
(* ResponseType, ASRResponse and the response classifier *)

ResponseType == {"TASK_STARTED", "SESSION_STARTED", "SESSION_FINISHED", "VAD_START",
                 "INTERIM_RESULT", "FINAL_RESULT", "HEARTBEAT", "ERROR", "UNKNOWN"}

\* ASRResponse with the defaults of the dataclass
ASRResponse(type) ==
    [type |-> type, text |-> "", is_final |-> FALSE, vad_start |-> FALSE,
     vad_finished |-> FALSE, packet_number |-> -1, error_msg |-> ""]

\* what stands for a call that raised instead of returning: not a ResponseType
ClassifierRaises(exception) ==
    [ASRResponse("EXCEPTION") EXCEPT !.error_msg = exception]

\* result_json of a response: kind "absent" (empty string), "garbage" (not JSON),
\* "not_object" (JSON, but no object: a list, a number, a string) or "object" with the
\* fields the classifier reads; has_results is FALSE when results is missing or null;
\* extra is "absent", "object" or "null" (present, but no object)
ResultJson(kind, hasResults, results, extra, hasPacket, packet, vadStart) ==
    [kind |-> kind, has_results |-> hasResults, results |-> results, extra |-> extra,
     has_packet_number |-> hasPacket, packet_number |-> packet, vad_start |-> vadStart]

NoJson == ResultJson("absent", FALSE, <<>>, "absent", FALSE, 0, FALSE)

\* one entry of results: is_interim is "absent", "true" or "false"; extra is "absent",
\* "object" or "null"
ResultEntry(text, isInterim, vadFinished, extra, nonstream) ==
    [text |-> text, is_interim |-> isInterim, is_vad_finished |-> vadFinished,
     extra |-> extra, nonstream_result |-> nonstream]

\* AsrResponsePb: the fields of a server message the client reads; decodable is FALSE
\* for data that ParseFromString rejects
ServerMsg(messageType, statusMessage, resultJson) ==
    [decodable |-> TRUE, message_type |-> messageType, status_message |-> statusMessage,
     result_json |-> resultJson]

RECURSIVE ScanResults(_, _)
\* the for-loop over results; acc = [text, is_interim, vad_finished, nonstream_result]
\* and raised, set when r.get("extra", {}) gave no object and .get failed on it
ScanResults(results, acc) ==
    IF results = <<>> \/ acc.raised THEN acc
    ELSE LET r == Head(results)
         IN  ScanResults(Tail(results),
                 [text |-> IF r.text # "" THEN r.text ELSE acc.text,
                  is_interim |-> IF r.is_interim = "false" THEN FALSE ELSE acc.is_interim,
                  vad_finished |-> acc.vad_finished \/ r.is_vad_finished,
                  nonstream_result |-> acc.nonstream_result
                                       \/ (r.extra = "object" /\ r.nonstream_result),
                  raised |-> r.extra = "null"])

\* an inspection of result_json that looks at vad_start only after the results
ParseResultJsonVadLast(j) ==
    IF j.kind = "absent" THEN ASRResponse("UNKNOWN")
    ELSE IF j.kind = "garbage" THEN ASRResponse("UNKNOWN")
    ELSE IF j.kind = "not_object" THEN ClassifierRaises("AttributeError")
    ELSE IF ~j.has_results
         THEN IF j.extra = "null" THEN ClassifierRaises("AttributeError")
              ELSE [ASRResponse("HEARTBEAT") EXCEPT
                        !.packet_number = IF j.extra = "object" /\ j.has_packet_number
                                          THEN j.packet_number ELSE -1]
    ELSE IF j.extra = "null" THEN ClassifierRaises("AttributeError")
    ELSE LET a == ScanResults(j.results,
                      [text |-> "", is_interim |-> TRUE, vad_finished |-> FALSE,
                       nonstream_result |-> FALSE, raised |-> FALSE])
         IN  IF a.raised THEN ClassifierRaises("AttributeError")
             ELSE IF a.nonstream_result \/ (~a.is_interim /\ a.vad_finished)
             THEN [ASRResponse("FINAL_RESULT") EXCEPT
                       !.text = a.text, !.is_final = TRUE,
                       !.vad_finished = a.vad_finished]
             ELSE IF j.extra = "object" /\ j.vad_start
             THEN [ASRResponse("VAD_START") EXCEPT !.vad_start = TRUE]
             ELSE [ASRResponse("INTERIM_RESULT") EXCEPT !.text = a.text]

\* _parse_response from "if not result_json" on: the inspection of result_json
ParseResultJson(j) ==
    IF j.kind = "absent" THEN ASRResponse("UNKNOWN")
    ELSE IF j.kind = "garbage" THEN ASRResponse("UNKNOWN")
    ELSE IF j.kind = "not_object" THEN ClassifierRaises("AttributeError")
    ELSE IF ~j.has_results
         THEN IF j.extra = "null" THEN ClassifierRaises("AttributeError")
              ELSE [ASRResponse("HEARTBEAT") EXCEPT
                        !.packet_number = IF j.extra = "object" /\ j.has_packet_number
                                          THEN j.packet_number ELSE -1]
    ELSE IF j.extra = "null" THEN ClassifierRaises("AttributeError")
    ELSE IF j.extra = "object" /\ j.vad_start
         THEN [ASRResponse("VAD_START") EXCEPT !.vad_start = TRUE]
    ELSE LET a == ScanResults(j.results,
                      [text |-> "", is_interim |-> TRUE, vad_finished |-> FALSE,
                       nonstream_result |-> FALSE, raised |-> FALSE])
         IN  IF a.raised THEN ClassifierRaises("AttributeError")
             ELSE IF a.nonstream_result \/ (~a.is_interim /\ a.vad_finished)
             THEN [ASRResponse("FINAL_RESULT") EXCEPT
                       !.text = a.text, !.is_final = TRUE,
                       !.vad_finished = a.vad_finished]
             ELSE [ASRResponse("INTERIM_RESULT") EXCEPT !.text = a.text]

\* a classifier that looks at result_json first and at message_type only without one
ParseResponseJsonFirst(pb) ==
    IF ~pb.decodable THEN ClassifierRaises("DecodeError")
    ELSE IF pb.result_json.kind # "absent" THEN ParseResultJson(pb.result_json)
    ELSE IF pb.message_type = "TaskStarted" THEN ASRResponse("TASK_STARTED")
    ELSE IF pb.message_type = "SessionStarted" THEN ASRResponse("SESSION_STARTED")
    ELSE IF pb.message_type = "SessionFinished" THEN ASRResponse("SESSION_FINISHED")
    ELSE IF pb.message_type \in {"TaskFailed", "SessionFailed"}
         THEN [ASRResponse("ERROR") EXCEPT !.error_msg = pb.status_message]
    ELSE ASRResponse("UNKNOWN")

_parse_response(pb) ==
    IF ~pb.decodable THEN ClassifierRaises("DecodeError")
    ELSE IF pb.message_type = "TaskStarted" THEN ASRResponse("TASK_STARTED")
    ELSE IF pb.message_type = "SessionStarted" THEN ASRResponse("SESSION_STARTED")
    ELSE IF pb.message_type = "SessionFinished" THEN ASRResponse("SESSION_FINISHED")
    ELSE IF pb.message_type \in {"TaskFailed", "SessionFailed"}
         THEN [ASRResponse("ERROR") EXCEPT !.error_msg = pb.status_message]
    ELSE ParseResultJson(pb.result_json)

HeartbeatMsg ==
    ServerMsg("", "", ResultJson("object", FALSE, <<>>, "object", TRUE, 7, FALSE))
InterimMsg ==
    ServerMsg("", "", ResultJson("object", TRUE,
                  <<ResultEntry("hello", "true", FALSE, "absent", FALSE)>>,
                  "absent", FALSE, 0, FALSE))
FinalMsg ==
    ServerMsg("", "", ResultJson("object", TRUE,
                  <<ResultEntry("hello world", "false", TRUE, "absent", FALSE)>>,
                  "absent", FALSE, 0, FALSE))
\* a message whose result_json is JSON but no object, such as "[]"
MalformedMsg ==
    ServerMsg("", "", ResultJson("not_object", FALSE, <<>>, "absent", FALSE, 0, FALSE))

\* the replies the server of the model may give to StartTask
StartTaskReplies ==
    { ServerMsg("TaskStarted", "", NoJson),
      ServerMsg("SessionFinished", "", NoJson),
      ServerMsg("TaskFailed", "quota exceeded", NoJson),
      HeartbeatMsg,
      MalformedMsg }

\* the replies the server of the model may give to StartSession
StartSessionReplies ==
    { ServerMsg("SessionStarted", "", NoJson),
      ServerMsg("SessionFinished", "", NoJson),
      ServerMsg("SessionFailed", "quota exceeded", NoJson),
      HeartbeatMsg }

\* the messages the server of the model may send while streaming, in any order
SessionMsgs ==
    { ServerMsg("SessionFinished", "", NoJson),
      ServerMsg("SessionFailed", "quota exceeded", NoJson),
      HeartbeatMsg,
      FinalMsg,
      MalformedMsg }

-----------------------------------------------------------------------------
(* The requests written to the transport *)

\* the defaults of ASRConfig
DefaultSampleRate == 16000
DefaultFrameDurationMs == 20

\* the sender's timestamp_ms = int(time.time() * 1000), taken once when it starts
SenderStartMs == 1000

\* AsrRequest: the fields that differ between the messages of a session; a message
\* other than a TaskRequest has no audio_data, no frame_state and no timestamp_ms
Request(method, requestId, audioData, frameState, timestampMs) ==
    [method_name |-> method, request_id |-> requestId, audio_data |-> audioData,
     frame_state |-> frameState, timestamp_ms |-> timestampMs]

_build_start_task(requestId) == Request("StartTask", requestId, <<>>, "NONE", -1)
_build_start_session(requestId) == Request("StartSession", requestId, <<>>, "NONE", -1)
_build_finish_session(requestId) == Request("FinishSession", requestId, <<>>, "NONE", -1)
_build_asr_request(audio_data, requestId, frame_state, timestamp_ms) ==
    Request("TaskRequest", requestId, audio_data, frame_state, timestamp_ms)

\* the PCM bytes at the places from..to of the audio, each named by its place
PcmBytes(from, to) == [k \in 1..(to - from + 1) |-> from + k - 1]

\* b"\x00" * n
ZeroBytes(n) == [k \in 1..n |-> 0]

\* encoder.encode(pcm_frame, samples_per_frame): the codec is external; the packet
\* stands for the frame it was made from
Encode(pcm_frame) == <<pcm_frame>>

\* opus_frames[i] of pcm_to_opus_frames(pcm_data)
OpusFrameAt(i) == Encode(PcmBytes(i * BytesPerFrame + 1, (i + 1) * BytesPerFrame))

\* a sender that stamps every frame with its start time
FrameTimestampConstant(timestamp_ms, i) == timestamp_ms

\* timestamp_ms + i * self.config.frame_duration_ms
FrameTimestamp(timestamp_ms, i) == timestamp_ms + i * DefaultFrameDurationMs

\* _send_audio: the frame_state of frame i of n
FileFrameState(i, n) ==
    IF i = 0 THEN "FIRST" ELSE IF i = n - 1 THEN "LAST" ELSE "MIDDLE"

\* _send_audio_realtime: the frame_state of a full frame cut from the buffer
LiveFrameState(i) == IF i = 0 THEN "FIRST" ELSE "MIDDLE"

-----------------------------------------------------------------------------
(* The streaming session *)

\* the secure channel is not used by a streaming session
WaveIdle == [used |-> FALSE]
CryptIdle == [used |-> FALSE]
\* nor are the classifier, the framer and transcribe() run on their own
ParseIdle == [used |-> FALSE]
PcmIdle == [used |-> FALSE]
TransIdle == [used |-> FALSE]
NerIdle == [used |-> FALSE]

\* request_id = str(uuid.uuid4()): a value the session never chose before
RequestIds == {"uuid4-a"}

SessionInit ==
    /\ mode \in {"file", "live"}
    /\ request_id \in RequestIds
    /\ final_text = ""
    /\ srcRead = 0
    /\ nframes \in IF mode = "file" THEN 0..MaxFrames ELSE {0}
    /\ srcLeft \in IF mode = "live" THEN 0..MaxChunks ELSE {0}
    /\ is_finished = FALSE
    /\ error = 0
    /\ sent = <<>>
    /\ inbound = <<>>
    /\ initRead = 0
    /\ queue = <<>>
    /\ delivered = <<>>
    /\ callerPc = "start_task"
    /\ endedBy = "none"
    /\ outcome = "none"
    /\ senderPc = "idle"
    /\ frame_index = 0
    /\ pcm_buffer = <<>>
    /\ recvPc = "idle"
    /\ wsClosed = FALSE
    /\ waited = 0
    /\ sinceRecv = 0
    /\ raisedWith = 0

\* the state of the session variables in the specifications that run no session
NoStream ==
    /\ mode = "none" /\ request_id = "" /\ final_text = "" /\ srcRead = 0
    /\ nframes = 0 /\ srcLeft = 0 /\ is_finished = FALSE /\ error = 0
    /\ sent = <<>> /\ inbound = <<>> /\ initRead = 0 /\ queue = <<>> /\ delivered = <<>>
    /\ callerPc = "none" /\ endedBy = "none" /\ outcome = "none" /\ senderPc = "none"
    /\ frame_index = 0 /\ pcm_buffer = <<>> /\ recvPc = "none" /\ wsClosed = FALSE
    /\ waited = 0 /\ sinceRecv = 0 /\ raisedWith = 0

Init ==
    /\ SessionInit
    /\ wave = WaveIdle /\ crypt = CryptIdle
    /\ parse = ParseIdle /\ pcm = PcmIdle /\ trans = TransIdle /\ ner = NerIdle

\* the generator ends by raising ASRError (or whatever exception reached it)
Raise ==
    /\ callerPc' = "done"
    /\ outcome' = "raised"
    /\ raisedWith' = 0

\* raise ASRError(message, parsed): the error carries the response stored at index i
RaiseWith(i) ==
    /\ callerPc' = "done"
    /\ outcome' = "raised"
    /\ raisedWith' = i

(* _initialize_session: await ws.send(StartTask) *)
initialize_session_send_task ==
    /\ callerPc = "start_task"
    /\ IF wsClosed
       THEN Raise /\ UNCHANGED sent
       ELSE /\ sent' = Append(sent, _build_start_task(request_id))
            /\ callerPc' = "recv_task"
            /\ UNCHANGED <<outcome, raisedWith>>
    /\ UNCHANGED <<mode, request_id, final_text, srcRead,
                   nframes, srcLeft, is_finished, error, inbound, initRead, queue,
                   delivered, endedBy, senderPc, frame_index, pcm_buffer, recvPc,
                   wsClosed, waited, sinceRecv, wave,
                   crypt, parse, pcm, trans, ner>>

\* an _initialize_session that yields an ERROR reply like any other and goes on
InitRecvYieldsError(m, next) ==
    LET parsed == _parse_response(m)
    IN  /\ ~wsClosed
        /\ Len(inbound) < MaxServerMsgs
        /\ inbound' = Append(inbound, parsed)
        /\ initRead' = initRead + 1
        /\ IF parsed.type = "EXCEPTION"
           THEN Raise /\ UNCHANGED delivered
           ELSE /\ delivered' = Append(delivered, Len(inbound) + 1)
                /\ callerPc' = next
                /\ UNCHANGED <<outcome, raisedWith>>
        /\ UNCHANGED <<mode, request_id, final_text, srcRead,
                   nframes, srcLeft, is_finished, error, sent, queue, endedBy,
                       senderPc, frame_index, pcm_buffer, recvPc, wsClosed, waited,
                       sinceRecv, wave, crypt, parse, pcm, trans, ner>>

\* resp = await ws.recv(); parsed = _parse_response(resp), whose exception passes to
\* the caller; raise ASRError(..., parsed) on ERROR, else yield parsed
InitRecv(m, next) ==
    LET parsed == _parse_response(m)
    IN  /\ ~wsClosed
        /\ Len(inbound) < MaxServerMsgs
        /\ inbound' = Append(inbound, parsed)
        /\ initRead' = initRead + 1
        /\ IF parsed.type = "EXCEPTION"
           THEN Raise /\ UNCHANGED delivered
           ELSE IF parsed.type = "ERROR"
           THEN RaiseWith(Len(inbound) + 1) /\ UNCHANGED delivered
           ELSE /\ delivered' = Append(delivered, Len(inbound) + 1)
                /\ callerPc' = next
                /\ UNCHANGED <<outcome, raisedWith>>
        /\ UNCHANGED <<mode, request_id, final_text, srcRead,
                   nframes, srcLeft, is_finished, error, sent, queue, endedBy,
                       senderPc, frame_index, pcm_buffer, recvPc, wsClosed, waited,
                       sinceRecv, wave, crypt, parse, pcm, trans, ner>>

(* _initialize_session: the response to StartTask *)
initialize_session_recv_task ==
    /\ callerPc = "recv_task"
    /\ \E m \in StartTaskReplies : InitRecv(m, "start_session")

(* _initialize_session: the caller resumes the generator; await ws.send(StartSession) *)
initialize_session_send_session ==
    /\ callerPc = "start_session"
    /\ IF wsClosed
       THEN Raise /\ UNCHANGED sent
       ELSE /\ sent' = Append(sent, _build_start_session(request_id))
            /\ callerPc' = "recv_session"
            /\ UNCHANGED <<outcome, raisedWith>>
    /\ UNCHANGED <<mode, request_id, final_text, srcRead,
                   nframes, srcLeft, is_finished, error, inbound, initRead, queue,
                   delivered, endedBy, senderPc, frame_index, pcm_buffer, recvPc,
                   wsClosed, waited, sinceRecv, wave,
                   crypt, parse, pcm, trans, ner>>

(* _initialize_session: the response to StartSession *)
initialize_session_recv_session ==
    /\ callerPc = "recv_session"
    /\ \E m \in StartSessionReplies : InitRecv(m, "create_tasks")

(* ws.recv() in _initialize_session on a closed transport: ConnectionClosed *)
initialize_session_recv_closed ==
    /\ callerPc \in {"recv_task", "recv_session"}
    /\ wsClosed
    /\ Raise
    /\ UNCHANGED <<mode, request_id, final_text, srcRead,
                   nframes, srcLeft, is_finished, error, sent, inbound, initRead,
                   queue, delivered, endedBy, senderPc, frame_index, pcm_buffer, recvPc,
                   wsClosed, waited, sinceRecv, wave,
                   crypt, parse, pcm, trans, ner>>

\* a stream that starts its two tasks as soon as StartSession is written
create_tasks_before_session_reply ==
    /\ callerPc = "recv_session"
    /\ callerPc' = "pull"
    /\ senderPc' = IF mode = "file" THEN "loop" ELSE "next_chunk"
    /\ recvPc' = "recv"
    /\ waited' = 0
    /\ sinceRecv' = 0
    /\ UNCHANGED <<mode, request_id, final_text, srcRead,
                   nframes, srcLeft, is_finished, error, sent, inbound, initRead,
                   queue, delivered, endedBy, outcome, frame_index, pcm_buffer,
                   wsClosed, raisedWith, wave,
                   crypt, parse, pcm, trans, ner>>

(* transcribe_stream / transcribe_realtime: the queue and the two tasks are created *)
create_tasks ==
    /\ callerPc = "create_tasks"
    /\ callerPc' = "pull"
    /\ senderPc' = IF mode = "file" THEN "loop" ELSE "next_chunk"
    /\ recvPc' = "recv"
    /\ waited' = 0
    /\ sinceRecv' = 0
    /\ UNCHANGED <<mode, request_id, final_text, srcRead,
                   nframes, srcLeft, is_finished, error, sent, inbound, initRead,
                   queue, delivered, endedBy, outcome, frame_index, pcm_buffer,
                   wsClosed, raisedWith, wave,
                   crypt, parse, pcm, trans, ner>>

-----------------------------------------------------------------------------
(* The send task *)

\* await ws.send(msg) of the send task: the message is written, or the transport
\* is closed and ConnectionClosed ends the task
SenderWrite(msg, nextPc) ==
    IF wsClosed
    THEN /\ senderPc' = "failed"
         /\ UNCHANGED sent
    ELSE /\ sent' = Append(sent, msg)
         /\ senderPc' = nextPc

(* _send_audio: one iteration of the loop over opus_frames *)
send_audio_frame ==
    /\ senderPc = "loop"
    /\ frame_index < nframes
    /\ ~is_finished
    /\ SenderWrite(_build_asr_request(OpusFrameAt(frame_index), request_id,
                                      FileFrameState(frame_index, nframes),
                                      FrameTimestamp(SenderStartMs, frame_index)),
                   "loop")
    /\ frame_index' = IF wsClosed THEN frame_index ELSE frame_index + 1
    /\ UNCHANGED <<mode, request_id, final_text, srcRead,
                   nframes, srcLeft, is_finished, error, inbound, initRead, queue,
                   delivered, callerPc, endedBy, outcome, pcm_buffer, recvPc, wsClosed,
                   waited, sinceRecv, raisedWith, wave,
                   crypt, parse, pcm, trans, ner>>

(* _send_audio: the loop ends (all frames sent, or is_finished) and FinishSession is sent *)
send_audio_finish ==
    /\ senderPc = "loop"
    /\ frame_index = nframes \/ is_finished
    /\ SenderWrite(_build_finish_session(request_id), "done")
    /\ UNCHANGED <<mode, request_id, final_text, srcRead,
                   nframes, srcLeft, is_finished, error, inbound, initRead, queue,
                   delivered, callerPc, endedBy, outcome, frame_index, pcm_buffer, recvPc,
                   wsClosed, waited, sinceRecv, raisedWith, wave,
                   crypt, parse, pcm, trans, ner>>

\* a cut that hands the whole buffer to the codec
CutFrameWholeBuffer(buffer, bytes_per_frame) ==
    [pcm_frame |-> buffer, rest |-> <<>>]

\* pcm_frame = pcm_buffer[:bytes_per_frame]; pcm_buffer = pcm_buffer[bytes_per_frame:]
CutFrame(buffer, bytes_per_frame) ==
    [pcm_frame |-> SubSeq(buffer, 1, Min(bytes_per_frame, Len(buffer))),
     rest |-> SubSeq(buffer, bytes_per_frame + 1, Len(buffer))]

\* one iteration of the inner while on the buffer: a full frame is cut, encoded,
\* built and written (await ws.send), and frame_index is advanced
SendFrameFrom(buffer) ==
    LET cut == CutFrame(buffer, BytesPerFrame)
    IN  /\ SenderWrite(_build_asr_request(Encode(cut.pcm_frame), request_id,
                                          LiveFrameState(frame_index),
                                          FrameTimestamp(SenderStartMs, frame_index)),
                       IF Len(cut.rest) >= BytesPerFrame
                       THEN "frames" ELSE "next_chunk")
        /\ pcm_buffer' = cut.rest
        /\ frame_index' = IF wsClosed THEN frame_index ELSE frame_index + 1

(* _send_audio_realtime: the source yields a chunk of c bytes: break when the      *)
(* session is finished, else the chunk joins the buffer and, with nothing that    *)
(* suspends the task in between, the first full frame of the buffer is sent        *)
send_audio_realtime_chunk(c) ==
    /\ senderPc = "next_chunk"
    /\ srcLeft > 0
    /\ srcLeft' = srcLeft - 1
    /\ srcRead' = srcRead + c
    /\ IF is_finished
       THEN /\ senderPc' = "tail"
            /\ UNCHANGED <<pcm_buffer, sent, frame_index>>
       ELSE LET buffer == pcm_buffer \o PcmBytes(srcRead + 1, srcRead + c)
            IN  IF Len(buffer) >= BytesPerFrame
                THEN SendFrameFrom(buffer)
                ELSE /\ pcm_buffer' = buffer
                     /\ senderPc' = "next_chunk"
                     /\ UNCHANGED <<sent, frame_index>>
    /\ UNCHANGED <<mode, request_id, final_text,
                   nframes, is_finished, error, inbound, initRead, queue,
                   delivered, callerPc, endedBy, outcome, recvPc, wsClosed,
                   waited, sinceRecv, raisedWith, wave,
                   crypt, parse, pcm, trans, ner>>

(* _send_audio_realtime: the source yields a chunk of c bytes that fills the first  *)
(* frame of the session and encoder.encode raises on it (the codec rejects the      *)
(* frame size it is given, which is the same for every frame, so the first encode   *)
(* is the one that raises): the exception ends the send task                        *)
send_audio_realtime_encode_raises(c) ==
    LET buffer == pcm_buffer \o PcmBytes(srcRead + 1, srcRead + c)
    IN  /\ senderPc = "next_chunk"
        /\ srcLeft > 0
        /\ ~is_finished
        /\ frame_index = 0
        /\ Len(buffer) >= BytesPerFrame
        /\ srcLeft' = srcLeft - 1
        /\ srcRead' = srcRead + c
        /\ pcm_buffer' = CutFrame(buffer, BytesPerFrame).rest
        /\ senderPc' = "failed"
        /\ UNCHANGED <<mode, request_id, final_text,
                       nframes, is_finished, error, sent, inbound, initRead, queue,
                       delivered, callerPc, endedBy, outcome, frame_index, recvPc,
                       wsClosed, waited, sinceRecv, raisedWith, wave,
                       crypt, parse, pcm, trans, ner>>

(* _send_audio_realtime: a further iteration of the inner while, after the write   *)
(* of the frame before it: the next full frame of the buffer is sent               *)
send_audio_realtime_frame ==
    /\ senderPc = "frames"
    /\ Len(pcm_buffer) >= BytesPerFrame
    /\ SendFrameFrom(pcm_buffer)
    /\ UNCHANGED <<mode, request_id, final_text, srcRead,
                   nframes, srcLeft, is_finished, error, inbound, initRead, queue,
                   delivered, callerPc, endedBy, outcome, recvPc, wsClosed, waited,
                   sinceRecv, raisedWith, wave,
                   crypt, parse, pcm, trans, ner>>

(* _send_audio_realtime: the source is exhausted *)
send_audio_realtime_source_end ==
    /\ senderPc = "next_chunk"
    /\ srcLeft = 0
    /\ senderPc' = "tail"
    /\ UNCHANGED <<mode, request_id, final_text, srcRead,
                   nframes, srcLeft, is_finished, error, sent, inbound, initRead,
                   queue, delivered, callerPc, endedBy, outcome, frame_index, pcm_buffer,
                   recvPc, wsClosed, waited, sinceRecv, raisedWith, wave,
                   crypt, parse, pcm, trans, ner>>

(* _send_audio_realtime: after the loop, the padded remainder or a silent frame as  *)
(* LAST; when neither is written, nothing suspends the task before the test and    *)
(* the write of FinishSession                                                      *)
send_audio_realtime_tail ==
    /\ senderPc = "tail"
    /\ IF pcm_buffer # <<>> /\ ~is_finished
       THEN LET padded == IF Len(pcm_buffer) < BytesPerFrame
                          THEN pcm_buffer \o ZeroBytes(BytesPerFrame - Len(pcm_buffer))
                          ELSE pcm_buffer
            IN  /\ SenderWrite(_build_asr_request(Encode(padded), request_id, "LAST",
                                       FrameTimestamp(SenderStartMs, frame_index)),
                               "finish")
                /\ pcm_buffer' = padded
       ELSE IF frame_index > 0 /\ ~is_finished
       THEN /\ SenderWrite(_build_asr_request(Encode(ZeroBytes(BytesPerFrame)),
                                       request_id, "LAST",
                                       FrameTimestamp(SenderStartMs, frame_index)),
                           "finish")
            /\ UNCHANGED pcm_buffer
       ELSE /\ IF ~is_finished
               THEN SenderWrite(_build_finish_session(request_id), "done")
               ELSE senderPc' = "done" /\ UNCHANGED sent
            /\ UNCHANGED pcm_buffer
    /\ UNCHANGED <<mode, request_id, final_text, srcRead,
                   nframes, srcLeft, is_finished, error, inbound, initRead, queue,
                   delivered, callerPc, endedBy, outcome, frame_index, recvPc,
                   wsClosed, waited, sinceRecv, raisedWith, wave,
                   crypt, parse, pcm, trans, ner>>

(* _send_audio_realtime: after the loop, encoder.encode raises on the padded        *)
(* remainder, the first frame of the session                                       *)
send_audio_realtime_tail_encode_raises ==
    /\ senderPc = "tail"
    /\ pcm_buffer # <<>> /\ ~is_finished
    /\ frame_index = 0
    /\ pcm_buffer' = IF Len(pcm_buffer) < BytesPerFrame
                     THEN pcm_buffer \o ZeroBytes(BytesPerFrame - Len(pcm_buffer))
                     ELSE pcm_buffer
    /\ senderPc' = "failed"
    /\ UNCHANGED <<mode, request_id, final_text, srcRead,
                   nframes, srcLeft, is_finished, error, sent, inbound, initRead, queue,
                   delivered, callerPc, endedBy, outcome, frame_index, recvPc,
                   wsClosed, waited, sinceRecv, raisedWith, wave,
                   crypt, parse, pcm, trans, ner>>

(* _send_audio_realtime: FinishSession, unless the session is finished *)
send_audio_realtime_finish ==
    /\ senderPc = "finish"
    /\ IF ~is_finished
       THEN SenderWrite(_build_finish_session(request_id), "done")
       ELSE senderPc' = "done" /\ UNCHANGED sent
    /\ UNCHANGED <<mode, request_id, final_text, srcRead,
                   nframes, srcLeft, is_finished, error, inbound, initRead, queue,
                   delivered, callerPc, endedBy, outcome, frame_index, pcm_buffer, recvPc,
                   wsClosed, waited, sinceRecv, raisedWith, wave,
                   crypt, parse, pcm, trans, ner>>

-----------------------------------------------------------------------------
(* The receive task *)

\* a receiver that records an Error and reads on
ReceiverStopsOnFinishedOnly(resp) == resp.type = "SESSION_FINISHED"

\* a receiver that ends its loop on an Error only
ReceiverStopsOnErrorOnly(resp) == resp.type = "ERROR"

\* the receiver ends its loop on these events
ReceiverStops(resp) == resp.type \in {"ERROR", "SESSION_FINISHED"}

\* a receiver that keeps heartbeats to itself
ReceiverPutsNoHeartbeat(resp, n) ==
    IF ReceiverStops(resp) THEN <<n, 0>>
    ELSE IF resp.type = "HEARTBEAT" THEN <<>> ELSE <<n>>

\* what one iteration of the receiver's loop puts on the queue for the response
\* stored at index n: the response, and the None sentinel when the loop ends
ReceiverPuts(resp, n) ==
    IF ReceiverStops(resp) THEN <<n, 0>> ELSE <<n>>

(* _receive_responses: one iteration of the loop, on the message m *)
receive_responses(m) ==
    LET resp == _parse_response(m)
        n == Len(inbound) + 1
    IN  /\ recvPc = "recv"
        /\ ~wsClosed
        /\ Len(inbound) < MaxServerMsgs
        /\ resp.type # "EXCEPTION"
        /\ inbound' = Append(inbound, resp)
        /\ is_finished' = (is_finished \/ ReceiverStops(resp))
        /\ error' = IF resp.type = "ERROR" THEN n ELSE error
        /\ final_text' = IF resp.type = "FINAL_RESULT" THEN resp.text ELSE final_text
        /\ queue' = queue \o ReceiverPuts(resp, n)
        /\ recvPc' = IF ReceiverStops(resp) THEN "done" ELSE "recv"
        /\ sinceRecv' = 0
        /\ UNCHANGED <<mode, request_id, srcRead,
                   nframes, srcLeft, sent, initRead, delivered, callerPc,
                       endedBy, outcome, senderPc, frame_index, pcm_buffer, wsClosed,
                       waited, raisedWith, wave,
                   crypt, parse, pcm, trans, ner>>

(* _receive_responses: _parse_response raises on the message m; the exception is   *)
(* none the task catches, so the task ends with it after its finally has put the   *)
(* sentinel; is_finished and error stay as they are                                *)
receive_responses_raises(m) ==
    LET resp == _parse_response(m)
    IN  /\ recvPc = "recv"
        /\ ~wsClosed
        /\ Len(inbound) < MaxServerMsgs
        /\ resp.type = "EXCEPTION"
        /\ inbound' = Append(inbound, resp)
        /\ queue' = Append(queue, 0)
        /\ recvPc' = "failed"
        /\ UNCHANGED <<mode, request_id, final_text, srcRead,
                   nframes, srcLeft, is_finished, error, sent, initRead,
                       delivered, callerPc, endedBy, outcome, senderPc, frame_index,
                       pcm_buffer, wsClosed, waited, sinceRecv, raisedWith, wave, crypt,
                       parse, pcm, trans, ner>>

(* _receive_responses: ws.recv() raises ConnectionClosed *)
receive_responses_closed ==
    /\ recvPc = "recv"
    /\ wsClosed
    /\ is_finished' = TRUE
    /\ queue' = Append(queue, 0)
    /\ recvPc' = "done"
    /\ UNCHANGED <<mode, request_id, final_text, srcRead,
                   nframes, srcLeft, error, sent, inbound, initRead, delivered,
                   callerPc, endedBy, outcome, senderPc, frame_index, pcm_buffer,
                   wsClosed, waited, sinceRecv, raisedWith, wave,
                   crypt, parse, pcm, trans, ner>>

-----------------------------------------------------------------------------
(* The consumer loop of transcribe_stream / transcribe_realtime *)

\* a consumer that also swallows interim results
ForwardedNoInterim(resp) == resp.type \notin {"HEARTBEAT", "INTERIM_RESULT"}

\* the consumer forwards every response but heartbeats
Forwarded(resp) == resp.type # "HEARTBEAT"

\* the consumer loop ends after yielding this response
ConsumerBreaksAfter(resp) == resp.type = "ERROR"

(* resp = await response_queue.get() returns: sentinel, heartbeat or a yielded event *)
consumer_get ==
    /\ callerPc = "pull"
    /\ queue # <<>>
    /\ queue' = Tail(queue)
    /\ LET h == Head(queue)
       IN  IF h = 0
           THEN /\ callerPc' = "await_send"
                /\ endedBy' = "sentinel"
                /\ UNCHANGED <<delivered, waited>>
           ELSE IF ~Forwarded(inbound[h])
           THEN /\ waited' = 0
                /\ UNCHANGED <<callerPc, endedBy, delivered>>
           ELSE /\ delivered' = Append(delivered, h)
                /\ callerPc' = "yielded"
                /\ waited' = 0
                /\ UNCHANGED endedBy
    /\ UNCHANGED <<mode, request_id, final_text, srcRead,
                   nframes, srcLeft, is_finished, error, sent, inbound, initRead,
                   outcome, senderPc, frame_index, pcm_buffer, recvPc, wsClosed,
                   sinceRecv, raisedWith, wave,
                   crypt, parse, pcm, trans, ner>>

(* the caller asks for the next event: break after an ERROR, else pull again *)
consumer_resume ==
    /\ callerPc = "yielded"
    /\ IF ConsumerBreaksAfter(inbound[delivered[Len(delivered)]])
       THEN /\ callerPc' = "await_send"
            /\ endedBy' = "error"
       ELSE /\ callerPc' = "pull"
            /\ UNCHANGED endedBy
    /\ UNCHANGED <<mode, request_id, final_text, srcRead,
                   nframes, srcLeft, is_finished, error, sent, inbound, initRead,
                   queue, delivered, outcome, senderPc, frame_index, pcm_buffer, recvPc,
                   wsClosed, waited, sinceRecv, raisedWith, wave,
                   crypt, parse, pcm, trans, ner>>

\* a consumer loop that marks the session finished when its pull times out
consumer_timeout_marks_finished ==
    /\ mode = "file"
    /\ callerPc = "pull"
    /\ queue = <<>>
    /\ waited >= RecvTimeout
    /\ callerPc' = "await_send"
    /\ endedBy' = "timeout"
    /\ is_finished' = TRUE
    /\ UNCHANGED <<mode, request_id, final_text, srcRead,
                   nframes, srcLeft, error, sent, inbound, initRead,
                   queue, delivered, outcome, senderPc, frame_index, pcm_buffer, recvPc,
                   wsClosed, waited, sinceRecv, raisedWith, wave,
                   crypt, parse, pcm, trans, ner>>

(* transcribe_stream: asyncio.wait_for raises TimeoutError, the loop breaks *)
consumer_timeout ==
    /\ mode = "file"
    /\ callerPc = "pull"
    /\ queue = <<>>
    /\ waited >= RecvTimeout
    /\ callerPc' = "await_send"
    /\ endedBy' = "timeout"
    /\ UNCHANGED <<mode, request_id, final_text, srcRead,
                   nframes, srcLeft, is_finished, error, sent, inbound, initRead,
                   queue, delivered, outcome, senderPc, frame_index, pcm_buffer, recvPc,
                   wsClosed, waited, sinceRecv, raisedWith, wave,
                   crypt, parse, pcm, trans, ner>>

(* await send_task after the loop: returns or re-raises once the send task has ended *)
await_send_task ==
    /\ callerPc = "await_send"
    /\ senderPc \in {"done", "failed"}
    /\ callerPc' = "finally"
    /\ UNCHANGED <<mode, request_id, final_text, srcRead,
                   nframes, srcLeft, is_finished, error, sent, inbound, initRead,
                   queue, delivered, endedBy, outcome, senderPc, frame_index, pcm_buffer,
                   recvPc, wsClosed, waited, sinceRecv, raisedWith, wave,
                   crypt, parse, pcm, trans, ner>>

(* the caller drops the iteration while the generator is suspended at the yield of *)
(* the consumer loop (aclose, or the generator is finalized): GeneratorExit is     *)
(* raised at the yield and the finally block runs                                  *)
caller_abandon ==
    /\ callerPc = "yielded"
    /\ callerPc' = "finally"
    /\ endedBy' = "abandoned"
    /\ UNCHANGED <<mode, request_id, final_text, srcRead,
                   nframes, srcLeft, is_finished, error, sent, inbound, initRead,
                   queue, delivered, outcome, senderPc, frame_index, pcm_buffer, recvPc,
                   wsClosed, waited, sinceRecv, raisedWith, wave, crypt, parse, pcm,
                   trans, ner>>

\* with suppress(CancelledError): await send_task, then the same for recv_task: the
\* second await is reached unless the first raised something else than CancelledError
RecvTaskAwaited(sendTask) == sendTask # "failed"

(* the finally block: both tasks are cancelled, then awaited one after the other;  *)
(* an awaited cancelled receiver runs its own finally and puts the sentinel; the   *)
(* exception of a task that had failed is raised to the caller, and when it is the *)
(* send task's, the receive task is left cancelled but not awaited                 *)
finally_block ==
    /\ callerPc = "finally"
    /\ senderPc' = IF senderPc \in {"done", "failed"} THEN senderPc ELSE "cancelled"
    /\ recvPc' = IF recvPc # "recv" THEN recvPc
                 ELSE IF RecvTaskAwaited(senderPc) THEN "cancelled" ELSE "cancelling"
    /\ queue' = IF recvPc = "recv" /\ RecvTaskAwaited(senderPc)
                THEN Append(queue, 0) ELSE queue
    /\ callerPc' = "done"
    /\ outcome' = IF senderPc = "failed" \/ recvPc = "failed" THEN "raised" ELSE "ended"
    /\ UNCHANGED <<mode, request_id, final_text, srcRead,
                   nframes, srcLeft, is_finished, error, sent, inbound, initRead,
                   delivered, endedBy, frame_index, pcm_buffer, wsClosed, waited,
                   sinceRecv, raisedWith, wave,
                   crypt, parse, pcm, trans, ner>>

(* the receive task that was cancelled but not awaited gets its CancelledError when *)
(* the event loop next runs it: its finally puts the sentinel and the task ends     *)
receive_responses_cancelled ==
    /\ recvPc = "cancelling"
    /\ recvPc' = "cancelled"
    /\ queue' = Append(queue, 0)
    /\ UNCHANGED <<mode, request_id, final_text, srcRead,
                   nframes, srcLeft, is_finished, error, sent, inbound, initRead,
                   delivered, callerPc, endedBy, outcome, senderPc, frame_index,
                   pcm_buffer, wsClosed, waited, sinceRecv, raisedWith, wave, crypt,
                   parse, pcm, trans, ner>>

-----------------------------------------------------------------------------
(* The environment: time and the transport *)

(* one unit of time passes while the consumer loop runs in file mode; a pull on a *)
(* non-empty queue returns, a pull that has waited recv_timeout times out, and a  *)
(* receiver whose ws.recv() raised ConnectionClosed handles it, before more time  *)
(* passes                                                                         *)
Tick ==
    /\ mode = "file"
    /\ callerPc \in {"pull", "yielded"}
    /\ callerPc = "pull" => (queue = <<>> /\ waited < RecvTimeout)
    /\ ~(recvPc = "recv" /\ wsClosed)
    /\ waited' = IF callerPc = "pull" THEN waited + 1 ELSE waited
    /\ sinceRecv' = Min(sinceRecv + 1, RecvTimeout)
    /\ <<waited', sinceRecv'>> # <<waited, sinceRecv>>
    /\ UNCHANGED <<mode, request_id, final_text, srcRead,
                   nframes, srcLeft, is_finished, error, sent, inbound, initRead,
                   queue, delivered, callerPc, endedBy, outcome, senderPc, frame_index,
                   pcm_buffer, recvPc, wsClosed, raisedWith, wave,
                   crypt, parse, pcm, trans, ner>>

(* the connection is closed by the peer or the network *)
transport_close ==
    /\ ~wsClosed
    /\ callerPc # "done"
    /\ wsClosed' = TRUE
    /\ UNCHANGED <<mode, request_id, final_text, srcRead,
                   nframes, srcLeft, is_finished, error, sent, inbound, initRead,
                   queue, delivered, callerPc, endedBy, outcome, senderPc, frame_index,
                   pcm_buffer, recvPc, waited, sinceRecv, raisedWith, wave,
                   crypt, parse, pcm, trans, ner>>

-----------------------------------------------------------------------------
(* The session's specification *)

\* the steps of the client's own coroutines
ClientNext ==
    \/ initialize_session_send_task
    \/ initialize_session_send_session
    \/ initialize_session_recv_closed
    \/ create_tasks
    \/ send_audio_frame
    \/ send_audio_finish
    \/ send_audio_realtime_source_end
    \/ send_audio_realtime_frame
    \/ send_audio_realtime_tail
    \/ send_audio_realtime_tail_encode_raises
    \/ send_audio_realtime_finish
    \/ receive_responses_closed
    \/ consumer_get
    \/ consumer_resume
    \/ consumer_timeout
    \/ await_send_task
    \/ finally_block
    \/ receive_responses_cancelled

\* the steps that wait for the server, the audio source, the clock or the network
EnvNext ==
    \/ initialize_session_recv_task
    \/ initialize_session_recv_session
    \/ \E m \in SessionMsgs : receive_responses(m)
    \/ \E m \in SessionMsgs : receive_responses_raises(m)
    \/ caller_abandon
    \/ \E c \in 1..MaxChunkBytes : send_audio_realtime_chunk(c)
    \/ \E c \in 1..MaxChunkBytes : send_audio_realtime_encode_raises(c)
    \/ Tick
    \/ transport_close

Next == ClientNext \/ EnvNext

Spec == Init /\ [][Next]_vars

\* the session under the scheduling the event loop guarantees: a coroutine that can
\* run is run, and time passes; the server, the audio source and the network owe nothing
FairSpec == Spec /\ WF_vars(ClientNext) /\ WF_vars(Tick)

-----------------------------------------------------------------------------
(* Observations of a session *)

\* the frame_state tags of the TaskRequest messages written so far
RECURSIVE FrameStates(_)
FrameStates(msgs) ==
    IF msgs = <<>> THEN <<>>
    ELSE IF Head(msgs).method_name = "TaskRequest"
         THEN <<Head(msgs).frame_state>> \o FrameStates(Tail(msgs))
         ELSE FrameStates(Tail(msgs))

\* one FIRST, then MIDDLEs, then one LAST
FirstMiddleLast(t) ==
    /\ Len(t) >= 2
    /\ t[1] = "FIRST"
    /\ t[Len(t)] = "LAST"
    /\ \A k \in 2..(Len(t) - 1) : t[k] = "MIDDLE"

TypeOf(i) == inbound[i].type
IsTerminalEvent(i) == TypeOf(i) \in {"SESSION_FINISHED", "ERROR"}

\* the events the caller got from the consumer loop (not from _initialize_session)
StreamDelivered == SelectSeq(delivered, LAMBDA i : i > initRead)

\* the responses the receive task read, heartbeats removed, in the order read
StreamReceivedNoHeartbeat ==
    SelectSeq([k \in 1..Len(inbound) |-> k],
              LAMBDA i : i > initRead /\ TypeOf(i) # "HEARTBEAT")

\* the events still waiting in the queue, heartbeats and the sentinel removed
QueuedNoHeartbeat == SelectSeq(queue, LAMBDA i : i # 0 /\ TypeOf(i) # "HEARTBEAT")

-----------------------------------------------------------------------------
(* C1 *)

\* C1: when the sender has sent a non-empty audio to the end (the session was not
\* finished under it and the transport stayed open), the frame_state tags written
\* are one FIRST, zero or more MIDDLE, one LAST, in that order.
C1_FrameStateSequence ==
    (/\ senderPc = "done"
     /\ ~is_finished
     /\ nframes > 0 \/ frame_index > 0 \/ pcm_buffer # <<>>)
    => FirstMiddleLast(FrameStates(sent))

-----------------------------------------------------------------------------
(* C2 *)

-----------------------------------------------------------------------------
(* C3 *)

\* C3: no Heartbeat event is ever delivered to the caller, in any phase of the session.
C3_NoHeartbeatDelivered ==
    \A k \in 1..Len(delivered) : TypeOf(delivered[k]) # "HEARTBEAT"

-----------------------------------------------------------------------------
(* C4 *)

\* C4: in file mode the consumer loop is left by timeout only when no message of any
\* kind, heartbeats included, was queued for a full recv_timeout.
C4_TimeoutOnlyAfterSilence ==
    [][(endedBy # "timeout" /\ endedBy' = "timeout") => sinceRecv >= RecvTimeout]_vars

\* C4 witness: the loop timed out although a heartbeat had been queued while streaming;
\* nothing was queued since the timeout.
C4_Witness ==
    /\ endedBy = "timeout"
    /\ sinceRecv = RecvTimeout
    /\ \E i \in (initRead + 1)..Len(inbound) : TypeOf(i) = "HEARTBEAT"

-----------------------------------------------------------------------------
(* C5 *)

\* C5: the events delivered while streaming, followed by those still queued, are the
\* responses the receiver read with heartbeats removed, in the same order and each
\* once; when the loop ended on the sentinel or on an Error none is left undelivered.
C5_DeliveredInTransportOrder ==
    /\ StreamDelivered \o QueuedNoHeartbeat = StreamReceivedNoHeartbeat
    /\ endedBy \in {"sentinel", "error"} => QueuedNoHeartbeat = <<>>

\* C5 witness: the iteration is over; while streaming the receiver read a heartbeat
\* and then an event, and the event was delivered.
C5_Witness ==
    /\ callerPc = "done"
    /\ Len(StreamDelivered) >= 1
    /\ \E i \in (initRead + 1)..Len(inbound) :
           /\ TypeOf(i) = "HEARTBEAT"
           /\ i < StreamDelivered[Len(StreamDelivered)]

-----------------------------------------------------------------------------
(* C6 *)

\* C6: in file mode the caller's iteration always eventually ends.
C6_FileModeIterationEnds == (mode = "file") => <>(callerPc = "done")

-----------------------------------------------------------------------------
(* C7 *)

\* C7: in file mode, a session whose queue pull timed out was delivered no Error
\* event, and its iteration ends without raising a failure to the caller.
C7_TimeoutEndsGracefully ==
    endedBy = "timeout"
    => /\ \A k \in 1..Len(delivered) : TypeOf(delivered[k]) # "ERROR"
       /\ callerPc = "done" => outcome = "ended"

-----------------------------------------------------------------------------
(* The secure channel: WaveSession, handshake, _ensure_session, prepare_request *)

\* handshake: expires_at = time.time() + resp.ticket_exp - 60
ExpiryMargin == 60
\* the ticket lifetimes (ticket_exp, seconds) the server of the model declares
Lifetimes == {30, 60, 90, 120}
\* the clock advances in steps of ClockStep seconds, up to MaxNow
ClockStep == 30
MaxNow == 150
\* at most MaxCalls protect calls are made on one client
MaxCalls == 3

\* WaveSession; key names the encryption_key, 0 when there is no session
NoSession == [present |-> FALSE, expires_at |-> 0, key |-> 0]
WaveSession(expiresAt, key) == [present |-> TRUE, expires_at |-> expiresAt, key |-> key]

\* WaveSession.is_expired at time t
is_expired(session, t) == t >= session.expires_at

\* what the handshake request meets: a 200 response declaring ticket_exp, a response
\* with another status, or an exception (no connection, a malformed response)
HandshakeReplies ==
    {[kind |-> "ok", ticket_exp |-> l] : l \in Lifetimes}
    \cup {[kind |-> "rejected", ticket_exp |-> 0], [kind |-> "raised", ticket_exp |-> 0]}

\* a handshake that drops the cached session when the server rejects it
HandshakeClearsOnRejection(session, t, n, reply) ==
    IF reply.kind = "ok"
    THEN [session |-> WaveSession(t + reply.ticket_exp - ExpiryMargin, n),
          returned |-> "true", updates |-> 1]
    ELSE IF reply.kind = "rejected"
    THEN [session |-> NoSession, returned |-> "false", updates |-> 0]
    ELSE [session |-> session, returned |-> "raised", updates |-> 0]

\* a handshake that takes the server-declared lifetime as it is
HandshakeWithoutMargin(session, t, n, reply) ==
    IF reply.kind = "ok"
    THEN [session |-> WaveSession(t + reply.ticket_exp, n),
          returned |-> "true", updates |-> 1]
    ELSE IF reply.kind = "rejected"
    THEN [session |-> session, returned |-> "false", updates |-> 0]
    ELSE [session |-> session, returned |-> "raised", updates |-> 0]

\* handshake() at time t with the n-th fresh key pair: the session it leaves in the
\* client and what it returns ("true", "false") or that it raised
handshake(session, t, n, reply) ==
    IF reply.kind = "ok"
    THEN [session |-> WaveSession(t + reply.ticket_exp - ExpiryMargin, n),
          returned |-> "true", updates |-> 1]
    ELSE IF reply.kind = "rejected"
    THEN [session |-> session, returned |-> "false", updates |-> 0]
    ELSE [session |-> session, returned |-> "raised", updates |-> 0]

\* an _ensure_session that does not look at what handshake() returned
EnsureSessionIgnoringFailure(session, t, n, reply) ==
    IF ~session.present \/ is_expired(session, t)
    THEN LET h == handshake(session, t, n, reply)
         IN  [session |-> h.session, handshakes |-> 1, updates |-> h.updates,
              failed |-> h.returned = "raised"]
    ELSE [session |-> session, handshakes |-> 0, updates |-> 0, failed |-> FALSE]

\* _ensure_session at time t: handshake when there is no session or it is expired,
\* RuntimeError when the handshake returns False; an exception of handshake() passes
_ensure_session(session, t, n, reply) ==
    IF ~session.present \/ is_expired(session, t)
    THEN LET h == handshake(session, t, n, reply)
         IN  [session |-> h.session, handshakes |-> 1, updates |-> h.updates,
              failed |-> h.returned # "true"]
    ELSE [session |-> session, handshakes |-> 0, updates |-> 0, failed |-> FALSE]

\* the client was given no session, or one (restored or handed in) that expires at 0 or 60
WaveInit ==
    /\ wave \in {[used |-> TRUE, session |-> s, now |-> 0, calls |-> 0, handshakes |-> 0,
                  updates |-> 0, last |-> [result |-> "none"]] :
                 s \in {NoSession, WaveSession(0, 100), WaveSession(60, 100)}}
    /\ crypt = CryptIdle /\ parse = ParseIdle /\ pcm = PcmIdle /\ trans = TransIdle /\ ner = NerIdle
    /\ NoStream

(* time passes between two calls *)
wave_clock ==
    /\ wave.now + ClockStep <= MaxNow
    /\ wave' = [wave EXCEPT !.now = wave.now + ClockStep]
    /\ UNCHANGED <<sessionVars, crypt, parse, pcm, trans, ner>>

(* prepare_request: _ensure_session, then the plaintext is encrypted with             *)
(* self.session.encryption_key (an AttributeError if self.session were still None);    *)
(* last records what the call did and returned                                         *)
prepare_request(reply) ==
    LET e == _ensure_session(wave.session, wave.now, wave.handshakes + 1, reply)
        crashed == ~e.failed /\ ~e.session.present
        ok == ~e.failed /\ ~crashed
    IN  /\ wave.calls < MaxCalls
        /\ wave' = [wave EXCEPT
               !.session = e.session,
               !.calls = wave.calls + 1,
               !.handshakes = wave.handshakes + e.handshakes,
               !.updates = wave.updates + e.updates,
               !.last = [result |-> IF ok THEN "ok" ELSE "error",
                         needed |-> ~wave.session.present
                                    \/ is_expired(wave.session, wave.now),
                         handshakes |-> e.handshakes,
                         handshake_ok |-> e.handshakes = 1 /\ reply.kind = "ok",
                         ciphertext_key |-> IF ok THEN e.session.key ELSE 0,
                         headers_ticket |-> IF ok THEN e.session.key ELSE 0,
                         key_expired |-> ok /\ is_expired(e.session, wave.now),
                         session_before |-> wave.session]]
        /\ UNCHANGED <<sessionVars, crypt, parse, pcm, trans, ner>>

WaveNext ==
    \/ wave_clock
    \/ \E reply \in HandshakeReplies : prepare_request(reply)

WaveSpec == WaveInit /\ [][WaveNext]_vars

-----------------------------------------------------------------------------
(* C8 *)

\* C8: a prepare_request that returned a ciphertext did not encrypt with a session
\* whose absolute expiry had passed, and one issued while the cached session was
\* expired performed exactly one handshake.
C8_NeverEncryptsWithExpiredSession ==
    wave.last.result = "ok"
    => /\ ~wave.last.key_expired
       /\ (wave.last.session_before.present /\ wave.last.needed)
          => wave.last.handshakes = 1

-----------------------------------------------------------------------------
(* C9 *)

\* C9: a prepare_request called with no cached session or an expired one attempts a
\* handshake; if the handshake fails the call fails and returns neither ciphertext
\* nor headers; if it returns them, they carry the key and ticket of the session the
\* handshake has just established, never those of the stale one.
C9_HandshakeIsBlockingPrerequisite ==
    (wave.last.result # "none" /\ wave.last.needed)
    => /\ wave.last.handshakes = 1
       /\ ~wave.last.handshake_ok
          => /\ wave.last.result = "error"
             /\ wave.last.ciphertext_key = 0
             /\ wave.last.headers_ticket = 0
       /\ wave.last.result = "ok"
          => /\ wave.last.handshake_ok
             /\ wave.last.ciphertext_key = wave.handshakes
             /\ wave.last.ciphertext_key # wave.last.session_before.key

\* C9 witness: the cached session was expired, the handshake was rejected and the
\* call failed, leaving the stale session in place.
C9_Witness ==
    /\ wave.last.result = "error"
    /\ wave.last.needed
    /\ wave.last.session_before.present
    /\ wave.last.handshakes = 1
    /\ wave.session = wave.last.session_before

-----------------------------------------------------------------------------
(* _chacha20_crypt *)

\* the longest plaintext of the model, in bytes
MaxMsgLen == 2
\* len(nonce) == 12: four zero bytes are put in front
NonceLen == 12
\* the cipher takes a 16-byte nonce (counter and nonce) and a 32-byte key
CipherNonceLen == 16
CipherKeyLen == 32

RECURSIVE XorBits(_, _, _)
\* the exclusive or of the low k bits of a and b
XorBits(a, b, k) ==
    IF k = 0 THEN 0
    ELSE (((a % 2) + (b % 2)) % 2) + 2 * XorBits(a \div 2, b \div 2, k - 1)

Xor8(a, b) == XorBits(a, b, 8)

\* byte i (from 1) of the keystream of the cipher library's ChaCha20(key, nonce_16):
\* fixed by the key, the block counter (the first four bytes of nonce_16, plus one
\* per 64 bytes), the nonce (the other twelve) and the position in the block.  The
\* library is no part of the repository; a small mixing function stands for it.
ChaCha20Keystream(key, nonce_16, i) ==
    LET block == nonce_16[1] + 256 * nonce_16[2] + nonce_16[3] + nonce_16[4]
                 + ((i - 1) \div 64)
        pos == (i - 1) % 64
    IN  (7 * key[(pos % CipherKeyLen) + 1] + 13 * nonce_16[(pos % NonceLen) + 5]
         + 31 * block + 17 * pos + 101) % 256

\* Cipher(ChaCha20(key, nonce_16)).encryptor().update(data): ValueError unless the
\* key has 32 bytes and the nonce 16
ChaCha20Update(key, nonce_16, data) ==
    IF Len(key) # CipherKeyLen \/ Len(nonce_16) # CipherNonceLen
    THEN [ok |-> FALSE, data |-> <<>>]
    ELSE [ok |-> TRUE,
          data |-> [i \in 1..Len(data) |-> Xor8(data[i], ChaCha20Keystream(key, nonce_16, i))]]

\* a _chacha20_crypt that returns the nonce in front of its output
ChaCha20CryptNoncePrefixed(key, nonce, data) ==
    LET nonce_16 == IF Len(nonce) = NonceLen THEN <<0, 0, 0, 0>> \o nonce ELSE nonce
        out == ChaCha20Update(key, nonce_16, data)
    IN  IF out.ok THEN [ok |-> TRUE, data |-> nonce \o out.data] ELSE out

_chacha20_crypt(key, nonce, data) ==
    LET nonce_16 == IF Len(nonce) = NonceLen THEN <<0, 0, 0, 0>> \o nonce ELSE nonce
    IN  ChaCha20Update(key, nonce_16, data)

\* the inputs of the model
CryptBytes == {0, 1, 165, 255}
CryptKeys == { [i \in 1..CipherKeyLen |-> 0],
               [i \in 1..CipherKeyLen |-> i],
               [i \in 1..CipherKeyLen |-> 255 - 3 * i] }
CryptNonces == { [i \in 1..NonceLen |-> 0],
                 [i \in 1..NonceLen |-> 20 * i],
                 <<0, 0, 0, 0>> \o [i \in 1..NonceLen |-> 20 * i],
                 <<1, 0, 0, 0>> \o [i \in 1..NonceLen |-> 20 * i],
                 [i \in 1..8 |-> i] }
CryptMessages == UNION {[1..n -> CryptBytes] : n \in 0..MaxMsgLen}

CryptInit ==
    /\ crypt \in {[used |-> TRUE, stage |-> "plain", key |-> k, nonce |-> n,
                   plaintext |-> m, ciphertext |-> [ok |-> FALSE, data |-> <<>>],
                   decrypted |-> [ok |-> FALSE, data |-> <<>>]] :
                  k \in CryptKeys, n \in CryptNonces, m \in CryptMessages}
    /\ wave = WaveIdle /\ parse = ParseIdle /\ pcm = PcmIdle /\ trans = TransIdle /\ ner = NerIdle
    /\ NoStream

(* prepare_request: ciphertext = _chacha20_crypt(session key, nonce, plaintext) *)
crypt_encrypt ==
    /\ crypt.stage = "plain"
    /\ crypt' = [crypt EXCEPT
           !.stage = "encrypted",
           !.ciphertext = _chacha20_crypt(crypt.key, crypt.nonce, crypt.plaintext)]
    /\ UNCHANGED <<sessionVars, wave, parse, pcm, trans, ner>>

(* decrypt: _chacha20_crypt(session key, nonce, ciphertext), same session and nonce *)
crypt_decrypt ==
    /\ crypt.stage = "encrypted"
    /\ crypt.ciphertext.ok
    /\ crypt' = [crypt EXCEPT
           !.stage = "decrypted",
           !.decrypted = _chacha20_crypt(crypt.key, crypt.nonce, crypt.ciphertext.data)]
    /\ UNCHANGED <<sessionVars, wave, parse, pcm, trans, ner>>

CryptNext == crypt_encrypt \/ crypt_decrypt

CryptSpec == CryptInit /\ [][CryptNext]_vars

-----------------------------------------------------------------------------
(* C10 *)

\* C10: for every key, every nonce the cipher accepts (12 or 16 bytes) and every
\* message, _chacha20_crypt applied to its own output under the same key and nonce
\* gives the message back, and the output has the length of the message.
C10_CryptRoundTrip ==
    /\ (crypt.stage # "plain" /\ Len(crypt.nonce) \in {NonceLen, CipherNonceLen})
       => /\ crypt.ciphertext.ok
          /\ Len(crypt.ciphertext.data) = Len(crypt.plaintext)
    /\ crypt.stage = "decrypted"
       => /\ crypt.decrypted.ok
          /\ crypt.decrypted.data = crypt.plaintext

\* C10 witness: a message of MaxMsgLen bytes was changed by the encryption under a
\* 12-byte nonce and then decrypted.
C10_Witness ==
    /\ crypt.stage = "decrypted"
    /\ Len(crypt.nonce) = NonceLen
    /\ Len(crypt.plaintext) = MaxMsgLen
    /\ crypt.ciphertext.data # crypt.plaintext

-----------------------------------------------------------------------------
(* _parse_response on its own: one message in, one response (or an exception) out *)

\* results holds at most MaxResults entries
MaxResults == 2

LifecycleTypes ==
    {"TaskStarted", "SessionStarted", "SessionFinished", "TaskFailed", "SessionFailed"}

ParseTexts == {"", "a", "b"}

\* the entries of the model: with the text "a", every marking of is_interim and
\* is_vad_finished and an extra that is missing, an object that marks nonstream_result,
\* or null; with the other texts, an entry that marks nothing
ParseEntries ==
    { ResultEntry("a", i, v, e[1], e[2]) :
        i \in {"absent", "true", "false"}, v \in BOOLEAN,
        e \in {<<"absent", FALSE>>, <<"object", TRUE>>, <<"null", FALSE>>} }
    \cup { ResultEntry(t, "true", FALSE, "absent", FALSE) : t \in ParseTexts }

ParseResultLists == UNION {[1..n -> ParseEntries] : n \in 0..MaxResults}

\* the top-level extra: missing, {}, {"packet_number": 7}, {"vad_start": true} or null
ParseExtras ==
    { <<"absent", FALSE, 0, FALSE>>, <<"object", FALSE, 0, FALSE>>,
      <<"object", TRUE, 7, FALSE>>, <<"object", FALSE, 0, TRUE>>,
      <<"null", FALSE, 0, FALSE>> }

ParseJsons ==
    { NoJson,
      ResultJson("garbage", FALSE, <<>>, "absent", FALSE, 0, FALSE),
      ResultJson("not_object", FALSE, <<>>, "absent", FALSE, 0, FALSE) }
    \cup { ResultJson("object", FALSE, <<>>, x[1], x[2], x[3], x[4]) : x \in ParseExtras }
    \cup { ResultJson("object", TRUE, r, x[1], x[2], x[3], x[4]) :
             r \in ParseResultLists, x \in ParseExtras }

\* data that is no AsrResponsePb
UndecodableData == [ServerMsg("", "", NoJson) EXCEPT !.decodable = FALSE]

\* the messages of the model: every result_json without a message_type, and every
\* lifecycle message_type with every result_json of at most one entry
ParseMessages ==
    { ServerMsg("", "", j) : j \in ParseJsons }
    \cup { ServerMsg(t, st, j) :
             t \in LifecycleTypes, st \in {"", "quota exceeded"},
             j \in {k \in ParseJsons : Len(k.results) <= 1} }
    \cup { UndecodableData }

ParseInit ==
    /\ parse \in {[used |-> TRUE, stage |-> "received", pb |-> m,
                   response |-> ASRResponse("UNKNOWN")] : m \in ParseMessages}
    /\ wave = WaveIdle /\ crypt = CryptIdle /\ pcm = PcmIdle /\ trans = TransIdle /\ ner = NerIdle
    /\ NoStream

(* resp = _parse_response(response) *)
parse_response ==
    /\ parse.stage = "received"
    /\ parse' = [parse EXCEPT !.stage = "parsed", !.response = _parse_response(parse.pb)]
    /\ UNCHANGED <<sessionVars, wave, crypt, pcm, trans, ner>>

ParseNext == parse_response

ParseSpec == ParseInit /\ [][ParseNext]_vars

\* the message given to the classifier had no lifecycle message_type and a result_json
\* that is a JSON object
ParsedJsonObject ==
    /\ parse.stage = "parsed"
    /\ parse.pb.decodable
    /\ parse.pb.message_type \notin LifecycleTypes
    /\ parse.pb.result_json.kind = "object"

-----------------------------------------------------------------------------
(* C11 *)

\* C11: for a message (without lifecycle message_type) whose result_json is an object
\* with a results list and no vad_start, the classifier returns FinalResult{text,
\* vad_finished} when some entry's extra marks nonstream_result, or some entry marks
\* is_interim false and some entry marks is_vad_finished, and InterimResult{text}
\* otherwise, text being the last non-empty text of the entries.
C11_ResultsAggregated ==
    LET j == parse.pb.result_json
        rs == j.results
        named == {k \in 1..Len(rs) : rs[k].text # ""}
        text == IF named = {} THEN ""
                ELSE rs[CHOOSE k \in named : \A l \in named : l <= k].text
        is_interim == ~\E k \in 1..Len(rs) : rs[k].is_interim = "false"
        vad_finished == \E k \in 1..Len(rs) : rs[k].is_vad_finished
        nonstream_result ==
            \E k \in 1..Len(rs) : rs[k].extra = "object" /\ rs[k].nonstream_result
    IN  (/\ ParsedJsonObject
         /\ j.has_results
         /\ ~(j.extra = "object" /\ j.vad_start))
        => IF nonstream_result \/ (~is_interim /\ vad_finished)
           THEN parse.response =
                    [ASRResponse("FINAL_RESULT") EXCEPT
                        !.text = text, !.is_final = TRUE, !.vad_finished = vad_finished]
           ELSE parse.response = [ASRResponse("INTERIM_RESULT") EXCEPT !.text = text]

-----------------------------------------------------------------------------
(* C12 *)

\* C12: a message with a lifecycle message_type is classified by it alone, whatever
\* its result_json holds: TaskFailed and SessionFailed give Error with status_message
\* as its message, TaskStarted, SessionStarted and SessionFinished the event of the
\* same name.
C12_MessageTypeFirst ==
    (/\ parse.stage = "parsed"
     /\ parse.pb.decodable
     /\ parse.pb.message_type \in LifecycleTypes)
    => parse.response =
           CASE parse.pb.message_type = "TaskStarted" -> ASRResponse("TASK_STARTED")
             [] parse.pb.message_type = "SessionStarted" -> ASRResponse("SESSION_STARTED")
             [] parse.pb.message_type = "SessionFinished" -> ASRResponse("SESSION_FINISHED")
             [] OTHER -> [ASRResponse("ERROR") EXCEPT
                              !.error_msg = parse.pb.status_message]

\* C12 witness: a SessionFailed message carrying a result_json with results, one that
\* alone would be a final result, was classified as the Error of its status_message.
C12_Witness ==
    /\ parse.stage = "parsed"
    /\ parse.pb.message_type = "SessionFailed"
    /\ parse.pb.status_message = "quota exceeded"
    /\ ParseResultJson(parse.pb.result_json).type = "FINAL_RESULT"
    /\ parse.response.type = "ERROR"
    /\ parse.response.error_msg = "quota exceeded"

-----------------------------------------------------------------------------
(* C13 *)

\* C13: for a message without lifecycle message_type whose result_json is an object
\* without a results list, the classifier returns Heartbeat, with the packet_number
\* of extra, or -1 when extra or its packet_number is missing, whatever else the
\* object holds.
C13_NoResultsIsHeartbeat ==
    LET j == parse.pb.result_json
    IN  (ParsedJsonObject /\ ~j.has_results)
        => parse.response =
               [ASRResponse("HEARTBEAT") EXCEPT
                   !.packet_number = IF j.extra = "object" /\ j.has_packet_number
                                     THEN j.packet_number ELSE -1]

-----------------------------------------------------------------------------
(* C14 *)

\* C14: no message read by the receive task makes the classifier raise (a malformed
\* one is classified Unknown), and the task is not ended by a message it could not
\* classify.
C14_MalformedIsUnknownAndNonFatal ==
    /\ \A i \in (initRead + 1)..Len(inbound) : TypeOf(i) # "EXCEPTION"
    /\ recvPc # "failed"

-----------------------------------------------------------------------------
(* AudioEncoder.pcm_to_opus_frames *)

\* the PCM input holds at most MaxPcmLen bytes
MaxPcmLen == 5
\* samples_per_frame is 1..MaxSamplesPerFrame, scaled down
MaxSamplesPerFrame == 2
\* config.channels is 1..MaxChannels
MaxChannels == 2

\* samples_per_frame = sample_rate * frame_duration_ms // 1000
SamplesPerFrame(sample_rate, frame_duration_ms) ==
    (sample_rate * frame_duration_ms) \div 1000

\* len(range(0, n, step))
RangeLen(n, step) == IF n <= 0 THEN 0 ELSE ((n - 1) \div step) + 1

\* a framer that hands the last chunk to the codec as it is
PadChunkNot(chunk, bytes_per_frame) == chunk

\* a chunk that zero bytes are added to, up to bytes_per_frame
PadChunk(chunk, bytes_per_frame) ==
    IF Len(chunk) < bytes_per_frame
    THEN chunk \o [k \in 1..(bytes_per_frame - Len(chunk)) |-> 0]
    ELSE chunk

\* self.encoder.encode(chunk, samples_per_frame) of the codec library, for an encoder
\* created with the given number of channels: it reads samples_per_frame 16-bit
\* samples per channel from the buffer, whatever the buffer's length; the packet it
\* returns stands for what it read, compressed. On a shorter buffer it reads past
\* the end: overread says what that gives, a fault or a packet made of the buffer
\* and the bytes that follow it in memory (-1 stands for them)
OpusEncode(chunk, samples_per_frame, channels, overread) ==
    LET needed == samples_per_frame * channels * 2
    IN  IF Len(chunk) >= needed
        THEN [ok |-> TRUE, packet |-> <<"opus", samples_per_frame, SubSeq(chunk, 1, needed)>>]
        ELSE IF overread = "fault"
        THEN [ok |-> FALSE, packet |-> <<>>]
        ELSE [ok |-> TRUE, packet |-> <<"opus", samples_per_frame, chunk \o <<-1>> >>]

PcmInit ==
    /\ pcm \in {[used |-> TRUE, pcm_data |-> d, samples_per_frame |-> n, channels |-> c,
                 i |-> 0, chunks |-> <<>>, frames |-> <<>>, pc |-> "loop"] :
                d \in UNION {[1..l -> {1, 2}] : l \in 0..MaxPcmLen},
                n \in 1..MaxSamplesPerFrame, c \in 1..MaxChannels}
    /\ wave = WaveIdle /\ crypt = CryptIdle /\ parse = ParseIdle /\ trans = TransIdle /\ ner = NerIdle
    /\ NoStream

(* one iteration of the loop: the chunk at offset i is cut, padded, encoded, appended; *)
(* chunks records what was handed to the codec                                        *)
pcm_to_opus_frames_chunk ==
    LET bytes_per_frame == pcm.samples_per_frame * 2
        chunk == PadChunk(SubSeq(pcm.pcm_data, pcm.i + 1,
                                 Min(pcm.i + bytes_per_frame, Len(pcm.pcm_data))),
                          bytes_per_frame)
    IN  /\ pcm.pc = "loop"
        /\ pcm.i < Len(pcm.pcm_data)
        /\ \E overread \in {"fault", "memory"} :
              LET opus_frame == OpusEncode(chunk, pcm.samples_per_frame, pcm.channels,
                                           overread)
              IN  pcm' = IF opus_frame.ok
                         THEN [pcm EXCEPT !.i = pcm.i + bytes_per_frame,
                                          !.chunks = Append(pcm.chunks, chunk),
                                          !.frames = Append(pcm.frames, opus_frame.packet)]
                         ELSE [pcm EXCEPT !.chunks = Append(pcm.chunks, chunk),
                                          !.pc = "raised"]
        /\ UNCHANGED <<sessionVars, wave, crypt, parse, trans, ner>>

(* the range is exhausted: return frames *)
pcm_to_opus_frames_return ==
    /\ pcm.pc = "loop"
    /\ pcm.i >= Len(pcm.pcm_data)
    /\ pcm' = [pcm EXCEPT !.pc = "returned"]
    /\ UNCHANGED <<sessionVars, wave, crypt, parse, trans, ner>>

PcmNext == pcm_to_opus_frames_chunk \/ pcm_to_opus_frames_return

PcmSpec == PcmInit /\ [][PcmNext]_vars

-----------------------------------------------------------------------------
(* C15 *)

\* C15: on one channel, every chunk pcm_to_opus_frames hands to the codec has exactly
\* bytes_per_frame bytes and the codec takes it; when it returns, for an input of L bytes, it has
\* produced ceil(L / bytes_per_frame) frames, the compressed chunks of the input in
\* input order, the last filled up with zero bytes; and 1.5 s of 16 kHz mono audio
\* in 20 ms frames gives 75 frames.
C15_FramesCoverInputPadded ==
    LET B == pcm.samples_per_frame * 2
        L == Len(pcm.pcm_data)
    IN  /\ pcm.channels = 1
           => /\ pcm.pc # "raised"
              /\ \A k \in 1..Len(pcm.chunks) : Len(pcm.chunks[k]) = B
              /\ pcm.pc = "returned"
                 => /\ Len(pcm.frames) = (L + B - 1) \div B
                    /\ Len(pcm.frames) = RangeLen(L, B)
                    /\ Len(pcm.chunks) = Len(pcm.frames)
                    /\ \A k \in 1..Len(pcm.frames) :
                          /\ pcm.frames[k] = <<"opus", pcm.samples_per_frame, pcm.chunks[k]>>
                          /\ \A b \in 1..B :
                                pcm.chunks[k][b] = IF (k - 1) * B + b <= L
                                                   THEN pcm.pcm_data[(k - 1) * B + b] ELSE 0
        /\ RangeLen((DefaultSampleRate * 2 * 3) \div 2,
                    SamplesPerFrame(DefaultSampleRate, DefaultFrameDurationMs) * 2) = 75

\* C15 witness: an input that is no multiple of the frame size was framed into two
\* frames or more, the last chunk ending in a zero byte that is not in the input.
C15_Witness ==
    /\ pcm.pc = "returned" /\ pcm.channels = 1
    /\ Len(pcm.pcm_data) % (pcm.samples_per_frame * 2) # 0
    /\ Len(pcm.frames) >= 2
    /\ pcm.chunks[Len(pcm.chunks)][pcm.samples_per_frame * 2] = 0

-----------------------------------------------------------------------------
(* C16 *)

\* the FinishSession messages among those written
FinishSessionsSent == {k \in 1..Len(sent) : sent[k].method_name = "FinishSession"}

\* C16: when the iteration of a session whose tasks were started is over and the
\* transport was not closed, FinishSession was written exactly once, and it is the
\* last message written (after the last TaskRequest), also when the send task was
\* cancelled with frames unsent.
C16_FinishSessionExactlyOnce ==
    (callerPc = "done" /\ senderPc # "idle" /\ ~wsClosed)
    => /\ Cardinality(FinishSessionsSent) = 1
       /\ sent[Len(sent)].method_name = "FinishSession"

-----------------------------------------------------------------------------
(* C17 *)

\* C17: when a reply read by _initialize_session is an Error (TaskFailed or
\* SessionFailed), the iteration has ended by raising an ASRError that carries that
\* reply; the reply was not yielded, nothing was read or written after it (no
\* StartSession after a failed StartTask, no TaskRequest, no FinishSession), and
\* neither the send task nor the receive task was started.
C17_InitFailureIsFatal ==
    \A k \in 1..initRead :
        TypeOf(k) = "ERROR"
        => /\ callerPc = "done"
           /\ outcome = "raised"
           /\ raisedWith = k
           /\ \A d \in 1..Len(delivered) : delivered[d] # k
           /\ Len(inbound) = k
           /\ Len(sent) = k
           /\ \A n \in 1..Len(sent) :
                 sent[n].method_name = IF n = 1 THEN "StartTask" ELSE "StartSession"
           /\ senderPc = "idle"
           /\ recvPc = "idle"
           /\ queue = <<>>

\* C17 witness: StartTask was accepted, the reply to StartSession was an Error and
\* the ASRError raised carries it.
C17_Witness ==
    /\ initRead = 2
    /\ TypeOf(1) = "TASK_STARTED"
    /\ TypeOf(2) = "ERROR"
    /\ inbound[2].error_msg = "quota exceeded"
    /\ outcome = "raised"
    /\ raisedWith = 2

-----------------------------------------------------------------------------
(* C18 *)

\* C18: when the receive task was ended by the closure of the transport before any
\* terminal response (SessionFinished or Error) was read, and the consumer loop ended
\* on its sentinel, the session did not end as a normal end of stream: an Error event
\* was delivered to the caller, or at least the iteration ended by raising.
C18_ClosureBeforeCompletionIsError ==
    (/\ callerPc = "done"
     /\ endedBy = "sentinel"
     /\ recvPc = "done"
     /\ wsClosed
     /\ \A i \in (initRead + 1)..Len(inbound) : ~IsTerminalEvent(i))
    => \/ \E k \in 1..Len(delivered) : TypeOf(delivered[k]) = "ERROR"
       \/ outcome = "raised"

-----------------------------------------------------------------------------
(* C20 *)

\* C20: StartSession is written only when the first response read, the reply to
\* StartTask, was TaskStarted.
C20_StartSessionOnlyAfterTaskStarted ==
    (\E n \in 1..Len(sent) : sent[n].method_name = "StartSession")
    => (initRead >= 1 /\ TypeOf(1) = "TASK_STARTED")

-----------------------------------------------------------------------------
(* DoubaoASR.transcribe: the loop over the events of transcribe_stream *)

\* the stream of the model yields at most MaxEvents events
MaxEvents == 3

\* the events a stream may yield to transcribe
TransEvents ==
    { ASRResponse("TASK_STARTED"),
      [ASRResponse("INTERIM_RESULT") EXCEPT !.text = "a"],
      [ASRResponse("FINAL_RESULT") EXCEPT !.text = "x", !.is_final = TRUE],
      [ASRResponse("FINAL_RESULT") EXCEPT !.text = "y", !.is_final = TRUE],
      [ASRResponse("FINAL_RESULT") EXCEPT !.text = "", !.is_final = TRUE],
      ASRResponse("SESSION_FINISHED"),
      [ASRResponse("ERROR") EXCEPT !.error_msg = "quota exceeded"] }

\* the streams transcribe_stream can give: an Error event is the last event of its
\* stream; the iteration then stops ("ended"), or raises ASRError itself, for a reply
\* rejected during initialization (after one event at most) or for a transport error
TransStreams ==
    { s \in [events : UNION {[1..n -> TransEvents] : n \in 0..MaxEvents},
             ending : {"ended", "raised_reply", "raised_transport"}] :
        /\ \A k \in 1..(Len(s.events) - 1) : s.events[k].type # "ERROR"
        /\ s.ending = "raised_reply"
           => (Len(s.events) <= 1 /\ \A k \in 1..Len(s.events) : s.events[k].type # "ERROR") }

\* a loop body that keeps the text of the first FinalResult
TranscribeBodyKeepsFirst(t, response) ==
    IF response.type = "INTERIM_RESULT" /\ t.on_interim
    THEN [t EXCEPT !.interims = Append(t.interims, response.text)]
    ELSE IF response.type = "FINAL_RESULT"
    THEN [t EXCEPT !.final_text = IF t.final_text = "" THEN response.text
                                  ELSE t.final_text]
    ELSE IF response.type = "ERROR"
    THEN [t EXCEPT !.pc = "raised", !.carries = "event"]
    ELSE t

\* the body of the loop of transcribe, for one response of the stream
TranscribeBody(t, response) ==
    IF response.type = "INTERIM_RESULT" /\ t.on_interim
    THEN [t EXCEPT !.interims = Append(t.interims, response.text)]
    ELSE IF response.type = "FINAL_RESULT"
    THEN [t EXCEPT !.final_text = response.text]
    ELSE IF response.type = "ERROR"
    THEN [t EXCEPT !.pc = "raised", !.carries = "event"]
    ELSE t

TransInit ==
    /\ trans \in {[used |-> TRUE, events |-> s.events, ending |-> s.ending,
                   on_interim |-> cb, pos |-> 0, final_text |-> "", interims |-> <<>>,
                   pc |-> "loop", carries |-> "none", returned |-> ""] :
                  s \in TransStreams, cb \in BOOLEAN}
    /\ wave = WaveIdle /\ crypt = CryptIdle /\ parse = ParseIdle /\ pcm = PcmIdle /\ ner = NerIdle
    /\ NoStream

(* the stream yields its next event and the body of the loop runs on it *)
transcribe_response ==
    /\ trans.pc = "loop"
    /\ trans.pos < Len(trans.events)
    /\ trans' = TranscribeBody([trans EXCEPT !.pos = trans.pos + 1],
                               trans.events[trans.pos + 1])
    /\ UNCHANGED <<sessionVars, wave, crypt, parse, pcm, ner>>

(* the stream stops: return final_text *)
transcribe_return ==
    /\ trans.pc = "loop"
    /\ trans.pos = Len(trans.events)
    /\ trans.ending = "ended"
    /\ trans' = [trans EXCEPT !.pc = "returned", !.returned = trans.final_text]
    /\ UNCHANGED <<sessionVars, wave, crypt, parse, pcm, ner>>

(* the stream raises ASRError itself: the exception passes through transcribe *)
transcribe_stream_raises ==
    /\ trans.pc = "loop"
    /\ trans.pos = Len(trans.events)
    /\ trans.ending # "ended"
    /\ trans' = [trans EXCEPT !.pc = "raised",
                              !.carries = IF trans.ending = "raised_reply"
                                          THEN "reply" ELSE "none"]
    /\ UNCHANGED <<sessionVars, wave, crypt, parse, pcm, ner>>

TransNext == transcribe_response \/ transcribe_return \/ transcribe_stream_raises

TransSpec == TransInit /\ [][TransNext]_vars

-----------------------------------------------------------------------------
(* C19 *)

\* C19: when transcribe has returned, it returned the text of the last FinalResult
\* event of the stream, the empty string if there was none; once the call is over,
\* it has raised ASRError carrying an event exactly if the stream delivered an Error
\* event, the event carried is that one, and no event after it was taken from the
\* stream.
C19_TranscribeLastFinalOrRaise ==
    LET finals == {k \in 1..Len(trans.events) : trans.events[k].type = "FINAL_RESULT"}
        errors == {k \in 1..Len(trans.events) : trans.events[k].type = "ERROR"}
    IN  /\ trans.pc = "returned"
           => trans.returned =
                  IF finals = {} THEN ""
                  ELSE trans.events[CHOOSE k \in finals : \A l \in finals : l <= k].text
        /\ trans.pc \in {"returned", "raised"}
           => /\ (trans.pc = "raised" /\ trans.carries = "event") <=> (errors # {})
              /\ errors # {}
                 => /\ trans.pos \in errors
                    /\ \A k \in errors : trans.pos <= k

\* C19 witness: the stream gave two FinalResult events with different texts and then
\* stopped, and transcribe has returned.
C19_Witness ==
    /\ trans.pc = "returned"
    /\ \E k, l \in 1..Len(trans.events) :
          /\ k < l
          /\ trans.events[k].type = "FINAL_RESULT"
          /\ trans.events[l].type = "FINAL_RESULT"
          /\ trans.events[k].text # trans.events[l].text
          /\ trans.events[k].text # ""

-----------------------------------------------------------------------------
(* C21 *)

\* the method names of the messages written to the transport, in order
MethodNames == [k \in 1..Len(sent) |-> sent[k].method_name]

\* C21: at every moment of a session the messages written to the transport are a
\* prefix of StartTask, StartSession, TaskRequest*, FinishSession: the first is
\* StartTask, the second StartSession, every later one a TaskRequest or FinishSession,
\* nothing follows FinishSession, and a TaskRequest is written only once the
\* response to StartSession was read.
C21_TransportSequenceIsPrefix ==
    /\ \A k \in 1..Len(sent) :
          /\ (k = 1) => (sent[k].method_name = "StartTask")
          /\ (k = 2) => (sent[k].method_name = "StartSession")
          /\ (k > 2) => (sent[k].method_name \in {"TaskRequest", "FinishSession"})
          /\ (sent[k].method_name = "FinishSession") => (k = Len(sent))
    /\ (\E k \in 1..Len(sent) : sent[k].method_name = "TaskRequest") => (initRead = 2)

\* a sender that wrote the whole sequence, with two audio frames
C21_Witness ==
    /\ senderPc = "done"
    /\ MethodNames = <<"StartTask", "StartSession", "TaskRequest", "TaskRequest",
                       "FinishSession">>

-----------------------------------------------------------------------------
(* C22 *)

\* the TaskRequest messages written to the transport, in order
TaskRequests == SelectSeq(sent, LAMBDA m : m.method_name = "TaskRequest")

\* the packet of a frame of silence
SilentFrame == Encode(ZeroBytes(BytesPerFrame))

\* the audio of the session is exactly one frame long
OneFrameAudio ==
    \/ mode = "file" /\ nframes = 1
    \/ mode = "live" /\ srcLeft = 0 /\ srcRead = BytesPerFrame

\* C22: when the sender has sent an audio of exactly one frame to the end (the session
\* was not finished under it and the transport stayed open), it has written that
\* frame tagged FIRST and then one silent frame tagged LAST, in file mode as in live
\* mode.
C22_OneFrameFirstThenSilentLast ==
    (senderPc = "done" /\ ~is_finished /\ OneFrameAudio)
        => /\ FrameStates(sent) = <<"FIRST", "LAST">>
           /\ TaskRequests[1].audio_data = Encode(PcmBytes(1, BytesPerFrame))
           /\ TaskRequests[2].audio_data = SilentFrame

\* live mode does it: the one frame as FIRST, then the silent LAST
C22_LiveWitness ==
    /\ mode = "live" /\ senderPc = "done" /\ ~is_finished /\ OneFrameAudio
    /\ FrameStates(sent) = <<"FIRST", "LAST">>
    /\ TaskRequests[2].audio_data = SilentFrame

-----------------------------------------------------------------------------
(* C23 *)

\* the places in sent of the TaskRequests tagged LAST
LastFramesSent ==
    {k \in 1..Len(sent) : sent[k].method_name = "TaskRequest"
                          /\ sent[k].frame_state = "LAST"}

\* C23: in live mode, when the source has ended with the session not finished and
\* the sender has run to its end, exactly one frame tagged LAST was written, directly
\* before FinishSession: the zero-padded remainder when bytes were left in the
\* buffer, a silent frame when none were, whatever the source yielded (nothing at
\* all included).
C23_LiveSourceEndWritesOneLast ==
    (mode = "live" /\ senderPc = "done" /\ ~is_finished)
        => /\ Cardinality(LastFramesSent) = 1
           /\ \A k \in LastFramesSent :
                 /\ k = Len(sent) - 1
                 /\ sent[Len(sent)].method_name = "FinishSession"
                 /\ sent[k].audio_data =
                        IF srcRead % BytesPerFrame = 0 THEN SilentFrame
                        ELSE Encode(PcmBytes(srcRead - (srcRead % BytesPerFrame) + 1,
                                             srcRead)
                                    \o ZeroBytes(BytesPerFrame
                                                 - (srcRead % BytesPerFrame)))

\* a source that yielded less than one frame: the padded remainder goes out as LAST
C23_PartialOnlyWitness ==
    /\ mode = "live" /\ senderPc = "done" /\ ~is_finished
    /\ srcRead > 0 /\ srcRead < BytesPerFrame
    /\ Cardinality(LastFramesSent) = 1

-----------------------------------------------------------------------------
(* C24 *)

\* what a TaskRequest carries of its frame: payload, tag and timestamp (the frame
\* index is (timestamp_ms - start) / frame_duration_ms)
FrameOf(m) ==
    [audio_data |-> m.audio_data, frame_state |-> m.frame_state,
     timestamp_ms |-> m.timestamp_ms]

FramesSent == [k \in 1..Len(TaskRequests) |-> FrameOf(TaskRequests[k])]

\* the frames of a byte stream of n bytes, told from the stream alone: its full
\* frames in order, then the padded remainder or, after at least one full frame, a
\* frame of silence
FramesOfStream(n) ==
    LET full == n \div BytesPerFrame
        r == n % BytesPerFrame
        count == full + (IF r > 0 \/ full > 0 THEN 1 ELSE 0)
    IN  [k \in 1..count |->
            IF k <= full
            THEN [audio_data |-> Encode(PcmBytes((k - 1) * BytesPerFrame + 1,
                                                 k * BytesPerFrame)),
                  frame_state |-> IF k = 1 THEN "FIRST" ELSE "MIDDLE",
                  timestamp_ms |-> SenderStartMs + (k - 1) * DefaultFrameDurationMs]
            ELSE [audio_data |-> IF r > 0
                                 THEN Encode(PcmBytes(full * BytesPerFrame + 1, n)
                                             \o ZeroBytes(BytesPerFrame - r))
                                 ELSE SilentFrame,
                  frame_state |-> "LAST",
                  timestamp_ms |-> SenderStartMs + full * DefaultFrameDurationMs]]

\* C24: in live mode the frames written depend on the bytes of the source only, not
\* on the chunks they came in: every frame cut from the buffer is the next
\* bytes_per_frame bytes of the stream, and when the sender has run to its end with
\* the session not finished, the payloads, tags and indices written are those of the
\* stream's bytes, whatever the chunking.
C24_FramesIndependentOfChunking ==
    (mode = "live") =>
        /\ \A k \in 1..Len(FramesSent) :
              /\ Len(FramesSent[k].audio_data[1]) = BytesPerFrame
              /\ (FramesSent[k].frame_state # "LAST")
                    => (k <= Len(FramesOfStream(srcRead))
                        /\ FramesSent[k] = FramesOfStream(srcRead)[k])
        /\ (senderPc = "done" /\ ~is_finished) => (FramesSent = FramesOfStream(srcRead))

\* a stream of one frame and one byte, which no chunking of the model delivers frame
\* by frame, was sent to the end
C24_Witness ==
    /\ mode = "live" /\ senderPc = "done" /\ ~is_finished
    /\ srcRead = BytesPerFrame + 1
    /\ Len(FramesSent) = 2
    /\ FramesSent = FramesOfStream(srcRead)

-----------------------------------------------------------------------------
(* C25 *)

\* C25: whenever the send task has run to completion (it was not cancelled and did
\* not fail), in file mode and in live mode, also when it stopped early because the
\* session was marked finished, it has written FinishSession exactly once, as its
\* last message and after every audio frame.
C25_CompletedSenderWroteFinishSession ==
    (senderPc = "done")
        => /\ Cardinality(FinishSessionsSent) = 1
           /\ sent[Len(sent)].method_name = "FinishSession"

\* the file-mode sender does so: stopped early by is_finished, FinishSession is its
\* last message
C25_FileWitness ==
    /\ mode = "file" /\ senderPc = "done" /\ is_finished
    /\ frame_index < nframes
    /\ Cardinality(FinishSessionsSent) = 1
    /\ sent[Len(sent)].method_name = "FinishSession"

-----------------------------------------------------------------------------
(* C26 *)

\* the step writes a TaskRequest to the transport
WritesTaskRequest ==
    /\ Len(sent') = Len(sent) + 1
    /\ sent'[Len(sent')].method_name = "TaskRequest"

\* C26: once the session is marked finished the sender begins no new audio frame: no
\* iteration of the sender that builds and writes a TaskRequest begins in a state
\* where is_finished is already true, in file mode per frame and in live mode per
\* frame cut from the buffer as well as per chunk.
C26_NoFrameBegunAfterFinished ==
    [][WritesTaskRequest => ~is_finished]_vars

\* the file-mode sender tests is_finished before every frame: it stopped with frames
\* left once the session was finished
C26_FileWitness ==
    /\ mode = "file" /\ senderPc = "done" /\ is_finished
    /\ frame_index > 0 /\ frame_index < nframes

-----------------------------------------------------------------------------
(* C27 *)

\* the receive task has stopped
ReceiverStopped == recvPc \in {"done", "failed", "cancelled"}

\* the places of the sentinel in the delivery queue
SentinelsQueued == {k \in 1..Len(queue) : queue[k] = 0}

\* a receiver that stopped has pushed the sentinel once, as the last item of the
\* queue (where it still is, unless the consumer has taken it), and a receiver that
\* has not stopped has pushed none
SentinelOnceAsLastItem ==
    /\ SentinelsQueued \subseteq {Len(queue)}
    /\ ReceiverStopped => \/ SentinelsQueued # {}
                          \/ endedBy = "sentinel" /\ queue = <<>>
    /\ ~ReceiverStopped => SentinelsQueued = {} /\ endedBy # "sentinel"

\* C27: whenever the receiver stops, for whatever reason, it has pushed the sentinel
\* exactly once as the last item of the delivery queue, and from then on the
\* caller's iteration is bound to terminate, in file mode and in live mode, also
\* when the audio source yields no further chunk.
C27_ReceiverStopEndsIteration ==
    /\ []SentinelOnceAsLastItem
    /\ ReceiverStopped ~> (callerPc = "done")

-----------------------------------------------------------------------------
(* C28 *)

\* a task that was awaited to its end: it returned, raised or was cancelled
TaskEnded(pc) == pc \in {"done", "failed", "cancelled"}

\* C28: when the stream call has returned or raised after its two tasks were
\* created, whatever ended the consumer loop (the sentinel, an Error event, a
\* timeout, the caller dropping the iteration, the send task failing), both the send
\* task and the receive task were cancelled and awaited and have ended.
C28_BothTasksEndedOnExit ==
    (callerPc = "done" /\ senderPc # "idle")
        => (TaskEnded(senderPc) /\ TaskEnded(recvPc))

\* an exit with a failed receiver: the send task was awaited first, both have ended
C28_ReceiverFailedWitness ==
    /\ callerPc = "done" /\ recvPc = "failed" /\ senderPc = "cancelled"

-----------------------------------------------------------------------------
(* C29 *)

\* the fields of the session's _SessionState
SessionState == <<request_id, final_text, is_finished, error>>

\* the step is one of the receive task: it has read a message from the transport,
\* or it has met the closed transport
ReceiverStep ==
    /\ recvPc = "recv"
    /\ \/ Len(inbound') = Len(inbound) + 1
       \/ wsClosed /\ recvPc' = "done"

\* C29: the SessionState record is written by the receive task only: a step that
\* changes final_text, is_finished or error is a step of the receiver, no step at
\* all changes request_id, and every message written to the transport carries the
\* request_id the session was created with.
C29_SessionStateWrittenByReceiverOnly ==
    /\ [][(SessionState' # SessionState) => ReceiverStep]_vars
    /\ [][request_id' = request_id]_vars
    /\ [](\A k \in 1..Len(sent) : sent[k].request_id = request_id)

\* the receiver has written final_text, is_finished and error, and the sender has
\* written the whole sequence of requests
C29_Witness ==
    /\ final_text # "" /\ is_finished /\ error # 0
    /\ senderPc = "done" /\ callerPc = "done"
    /\ Len(TaskRequests) >= 2
    /\ Cardinality(FinishSessionsSent) = 1

-----------------------------------------------------------------------------
(* C30 *)

\* C30: the k-th TaskRequest of a session (frame index k - 1) carries the timestamp
\* start + (k - 1) * frame_duration_ms, where start is the timestamp the sender took
\* when it began: the indices run 0, 1, 2, ... with none skipped or repeated, and the
\* timestamps never decrease from one TaskRequest to the next, the LAST frame of
\* live mode included.
C30_TimestampFollowsFrameIndex ==
    /\ \A k \in 1..Len(TaskRequests) :
          TaskRequests[k].timestamp_ms
              = SenderStartMs + (k - 1) * DefaultFrameDurationMs
    /\ \A k \in 1..(Len(TaskRequests) - 1) :
          TaskRequests[k].timestamp_ms <= TaskRequests[k + 1].timestamp_ms
    /\ (senderPc \in {"loop", "next_chunk", "frames", "tail"})
          => (frame_index = Len(TaskRequests))

\* a live session that sent two full frames and the LAST frame after them
C30_Witness ==
    /\ mode = "live" /\ senderPc = "done"
    /\ Len(TaskRequests) = 3
    /\ TaskRequests[3].frame_state = "LAST"
    /\ TaskRequests[3].timestamp_ms = SenderStartMs + 2 * DefaultFrameDurationMs

-----------------------------------------------------------------------------
(* C31 *)

\* the result_json carries results and an extra object whose vad_start is truthy
VadStartWithResults ==
    /\ ParsedJsonObject
    /\ parse.pb.result_json.has_results
    /\ parse.pb.result_json.extra = "object"
    /\ parse.pb.result_json.vad_start

\* some entry of results would, on its own, make the response final
SomeEntryFinal ==
    LET r == parse.pb.result_json.results
    IN  \/ \E k \in 1..Len(r) : r[k].extra = "object" /\ r[k].nonstream_result
        \/ /\ \E k \in 1..Len(r) : r[k].is_interim = "false"
           /\ \E k \in 1..Len(r) : r[k].is_vad_finished

\* C31: for a message (without lifecycle message_type) whose result_json has results
\* and an extra with a truthy vad_start, the classifier returns VadStart with
\* vad_start set and no text, whatever the entries of results hold: entries that
\* carry nonstream_result, or is_interim false with is_vad_finished, or an extra that
\* is no object, change nothing.
C31_VadStartPrecedesResults ==
    VadStartWithResults
        => /\ parse.response.type = "VAD_START"
           /\ parse.response.vad_start
           /\ parse.response.text = ""
           /\ ~parse.response.is_final

\* VadStart was returned for results that hold a final entry
C31_Witness ==
    /\ VadStartWithResults
    /\ SomeEntryFinal
    /\ parse.response.type = "VAD_START"

-----------------------------------------------------------------------------
(* Protected calls on one WaveClient: get_wave_client, then get_ner_results run by *)
(* several threads of the caller (prepare_request, the request, decrypt); nothing  *)
(* in WaveClient or ASRConfig holds a lock                                         *)

\* the threads that call get_ner_results with the client
MaxCallers == 2
Callers == 1..MaxCallers

\* the key of a session restored from the credentials cache
CachedKey == 100

\* WaveSession.to_dict: what the callback of ASRConfig stores as
\* credentials.wave_session
to_dict(session) ==
    [kind |-> "session", expires_at |-> session.expires_at, key |-> session.key]

\* credentials.wave_session: "none" (absent or empty), "session" (a to_dict() of a
\* session), "missing_key" (a dict without one of the keys), "bad_base64" (a field
\* that is a string but no base64), "wrong_type" (a bytes field that is no string:
\* null or a number)
CacheEntries ==
    { [kind |-> "none", expires_at |-> 0, key |-> 0],
      to_dict(WaveSession(0, CachedKey)),
      to_dict(WaveSession(ExpiryMargin, CachedKey)),
      [kind |-> "missing_key", expires_at |-> 0, key |-> 0],
      [kind |-> "bad_base64", expires_at |-> 0, key |-> 0],
      [kind |-> "wrong_type", expires_at |-> 0, key |-> 0] }

\* WaveSession.from_dict: data[...] raises KeyError on a missing key, b64decode
\* raises binascii.Error (a ValueError) on a string that is no base64 and TypeError
\* on a value that is neither bytes nor str
from_dict(data) ==
    IF data.kind = "session"
    THEN [raised |-> "none", session |-> WaveSession(data.expires_at, data.key)]
    ELSE IF data.kind = "missing_key" THEN [raised |-> "KeyError", session |-> NoSession]
    ELSE IF data.kind = "bad_base64" THEN [raised |-> "ValueError", session |-> NoSession]
    ELSE [raised |-> "TypeError", session |-> NoSession]

\* get_wave_client at time t: the session the new WaveClient is given, or the
\* exception that leaves get_wave_client (only KeyError and ValueError are caught)
get_wave_client(data, t) ==
    IF data.kind = "none" THEN [raised |-> "none", session |-> NoSession]
    ELSE LET d == from_dict(data)
         IN  IF d.raised \in {"KeyError", "ValueError"}
             THEN [raised |-> "none", session |-> NoSession]
             ELSE IF d.raised # "none" THEN [raised |-> d.raised, session |-> NoSession]
             ELSE IF ~is_expired(d.session, t)
             THEN [raised |-> "none", session |-> d.session]
             ELSE [raised |-> "none", session |-> NoSession]

\* what the handshake requests of these calls meet: the replies of HandshakeReplies
\* whose declared lifetime leaves the new session valid when it is issued
NerReplies == {r \in HandshakeReplies : r.kind = "ok" => r.ticket_exp > ExpiryMargin}

\* one call of get_ner_results: where the thread is, the session it found cached
\* when _ensure_session tested it, what its handshake met and the lifetime the
\* server declared, and the keys it encrypted the request and decrypted the reply
\* with (0: not yet)
NoCall ==
    [pc |-> "idle", seen |-> NoSession, handshake |-> "none", ticket_exp |-> 0,
     enc_key |-> 0, dec_key |-> 0]

NerInit ==
    /\ ner \in {[used |-> TRUE, stage |-> "no_client", cache |-> d, raised |-> "none",
                 session |-> NoSession, now |-> 0, handshakes |-> 0, notified |-> 0,
                 call |-> [c \in Callers |-> NoCall]] : d \in CacheEntries}
    /\ wave = WaveIdle /\ crypt = CryptIdle /\ parse = ParseIdle /\ pcm = PcmIdle
    /\ trans = TransIdle
    /\ NoStream

(* ASRConfig.get_wave_client: the client is created, with the cached session or none *)
ner_get_wave_client ==
    /\ ner.stage = "no_client"
    /\ LET g == get_wave_client(ner.cache, ner.now)
       IN  ner' = [ner EXCEPT !.stage = IF g.raised = "none" THEN "ready" ELSE "load_failed",
                              !.raised = g.raised,
                              !.session = g.session]
    /\ UNCHANGED <<sessionVars, wave, crypt, parse, pcm, trans>>

(* time passes *)
ner_clock ==
    /\ ner.stage # "load_failed"
    /\ ner.now + ClockStep <= MaxNow
    /\ ner' = [ner EXCEPT !.now = ner.now + ClockStep]
    /\ UNCHANGED <<sessionVars, wave, crypt, parse, pcm, trans>>

(* prepare_request -> _ensure_session: the test of self.session; handshake() is   *)
(* entered and its request posted when there is no session or it is expired       *)
ner_ensure_session(c) ==
    /\ ner.stage = "ready"
    /\ ner.call[c].pc = "idle"
    /\ ner' = [ner EXCEPT
           !.call[c].seen = ner.session,
           !.call[c].pc = IF ~ner.session.present \/ is_expired(ner.session, ner.now)
                          THEN "handshaking" ELSE "encrypt"]
    /\ UNCHANGED <<sessionVars, wave, crypt, parse, pcm, trans>>

(* handshake(): requests.post returns (or raises); on 200 the new session is       *)
(* assigned to self.session and handed to the callback, _on_wave_session_update,   *)
(* which stores it in the credentials; _ensure_session raises RuntimeError when    *)
(* handshake() returned False. notified counts the calls of the callback           *)
ner_handshake_reply(c, reply) ==
    LET h == handshake(ner.session, ner.now, ner.handshakes + 1, reply)
    IN  /\ ner.call[c].pc = "handshaking"
        /\ ner' = [ner EXCEPT
               !.session = h.session,
               !.handshakes = ner.handshakes + 1,
               !.notified = ner.notified + h.updates,
               !.cache = IF h.updates = 1 THEN to_dict(h.session) ELSE ner.cache,
               !.call[c].handshake = reply.kind,
               !.call[c].ticket_exp = reply.ticket_exp,
               !.call[c].pc = IF h.returned = "true" THEN "encrypt" ELSE "failed"]
        /\ UNCHANGED <<sessionVars, wave, crypt, parse, pcm, trans>>

(* prepare_request: the plaintext is encrypted with self.session.encryption_key    *)
(* and the request is posted                                                       *)
ner_encrypt(c) ==
    /\ ner.call[c].pc = "encrypt"
    /\ ner' = [ner EXCEPT !.call[c].enc_key = ner.session.key,
                          !.call[c].pc = "posted"]
    /\ UNCHANGED <<sessionVars, wave, crypt, parse, pcm, trans>>

\* decrypt: self._chacha20_crypt(self.session.encryption_key, nonce, ciphertext)
DecryptKey(session, call) == session.key

(* the reply has arrived: wave_client.decrypt(response.content, nonce) *)
ner_decrypt(c) ==
    /\ ner.call[c].pc = "posted"
    /\ ner' = [ner EXCEPT !.call[c].dec_key = DecryptKey(ner.session, ner.call[c]),
                          !.call[c].pc = "done"]
    /\ UNCHANGED <<sessionVars, wave, crypt, parse, pcm, trans>>

NerNext ==
    \/ ner_get_wave_client
    \/ ner_clock
    \/ \E c \in Callers : ner_ensure_session(c)
    \/ \E c \in Callers : \E reply \in NerReplies : ner_handshake_reply(c, reply)
    \/ \E c \in Callers : ner_encrypt(c)
    \/ \E c \in Callers : ner_decrypt(c)

NerSpec == NerInit /\ [][NerNext]_vars

-----------------------------------------------------------------------------
(* C32 *)

\* C32: a call that has decrypted its reply used the key its request was encrypted
\* with, however the calls on the client interleave, a renewal by another call
\* between this call's prepare_request and its decrypt included.
C32_DecryptsWithEncryptionKey ==
    \A c \in Callers :
        (ner.call[c].pc = "done") => (ner.call[c].dec_key = ner.call[c].enc_key)

\* a call on its own decrypts with the key it encrypted with
C32_AloneWitness ==
    /\ ner.call[1].pc = "done" /\ ner.call[2].pc = "idle"
    /\ ner.call[1].dec_key = ner.call[1].enc_key
    /\ ner.call[1].enc_key # 0

-----------------------------------------------------------------------------
(* C33 *)

\* the calls whose handshake established a session
Renewed == {c \in Callers : ner.call[c].handshake = "ok"}

\* C33: renewal is serialized among concurrent callers: no two calls that found the
\* same absent or expired session each performed a successful handshake for it, and
\* a handshake never replaces a session that is present and not expired (one that
\* another caller has just established or is using).
C33_RenewalSerialized ==
    /\ [](\A c \in Renewed : \A d \in Renewed \ {c} : ner.call[c].seen # ner.call[d].seen)
    /\ [][ner'.session # ner.session
          => (~ner.session.present \/ is_expired(ner.session, ner.now))]_vars

\* two calls one after the other: the second finds the session of the first
C33_SequentialWitness ==
    /\ ner.call[1].handshake = "ok" /\ ner.call[2].pc = "done"
    /\ ner.call[2].handshake = "none"
    /\ ner.call[2].seen.key = 1
    /\ ner.handshakes = 1

-----------------------------------------------------------------------------
(* C34 *)

\* the calls whose handshake succeeds in this step
HandshakeSucceeds ==
    {c \in Callers : ner.call[c].pc = "handshaking" /\ ner'.call[c].pc = "encrypt"}

\* C34: a successful handshake replaces the cached session by a new WaveSession with
\* a fresh key whose expiry is the handshake time plus the declared lifetime minus
\* 60 s, and calls the renewal callback once, with that session (which the callback
\* stores in the credentials); every other step on the client (the session test, a
\* failed handshake, encryption, decrypt, time passing) leaves the cached session as
\* it is and does not call the callback.
C34_OnlyHandshakeSupersedesSession ==
    [][/\ \A c \in HandshakeSucceeds :
             /\ ner'.session = WaveSession(ner.now + ner'.call[c].ticket_exp - 60,
                                           ner.handshakes + 1)
             /\ ner'.session.key # ner.session.key
             /\ \A d \in Callers : ner'.session.key # ner.call[d].seen.key
             /\ ner'.notified = ner.notified + 1
             /\ ner'.cache = to_dict(ner'.session)
       /\ (HandshakeSucceeds = {} /\ ner.stage = "ready")
          => /\ ner'.session = ner.session
             /\ ner'.notified = ner.notified
             /\ ner'.cache = ner.cache]_vars

\* a handshake has replaced a session restored from the credentials that expired
\* since, and another call has used the new session from encryption to decrypt
C34_Witness ==
    /\ ner.call[1].handshake = "ok" /\ ner.call[1].seen.key = CachedKey
    /\ ner.notified = 1 /\ ner.session.key = 1 /\ ner.cache = to_dict(ner.session)
    /\ ner.call[2].pc = "done" /\ ner.call[2].handshake = "none"
    /\ ner.call[2].dec_key = 1

-----------------------------------------------------------------------------
(* C35 *)

\* the step in which get_wave_client runs
ClientLoaded == ner.stage = "no_client" /\ ner'.stage # "no_client"

\* C35: get_wave_client gives the new client the session of the credentials cache
\* only when that session decodes and its expiry has not passed at that time; for
\* an expired or undecodable cached session (and for none) the client is created
\* with no session; and a protect call that finds no session performs a handshake.
C35_OnlyUnexpiredCacheInstalled ==
    [][/\ ClientLoaded
          => /\ ner'.stage = "ready"
             /\ ner'.session =
                   IF ner.cache.kind = "session" /\ ner.now < ner.cache.expires_at
                   THEN WaveSession(ner.cache.expires_at, ner.cache.key)
                   ELSE NoSession
       /\ \A c \in Callers :
             (ner.stage = "ready" /\ ~ner.session.present
                  /\ ner.call[c].pc = "idle" /\ ner'.call[c].pc # "idle")
             => ner'.call[c].pc = "handshaking"]_vars

\* a cached session whose base64 does not decode was discarded, and the first call
\* on the client performed a handshake
C35_DiscardedWitness ==
    /\ ner.stage = "ready" /\ ner.cache.kind = "bad_base64"
    /\ ner.call[1].pc = "handshaking" /\ ~ner.session.present

-----------------------------------------------------------------------------
(* C38 *)

\* the calls whose handshake the server rejects in this step
HandshakeRejected ==
    {c \in Callers : ner.call[c].pc = "handshaking" /\ ner'.call[c].handshake = "rejected"}

\* C38: a handshake answered with a status other than 200 fails the call (handshake()
\* returns False and _ensure_session raises) and leaves the client as it was: the
\* cached session, absent or expired, is neither replaced nor cleared, the renewal
\* callback is not called and the stored credentials are not touched.
C38_RejectedHandshakeChangesNothing ==
    [][\A c \in HandshakeRejected :
           /\ ner'.call[c].pc = "failed"
           /\ ner'.call[c].enc_key = 0
           /\ ner'.session = ner.session
           /\ ner'.notified = ner.notified
           /\ ner'.cache = ner.cache]_vars

\* the handshake for a restored session that had expired was rejected: the expired
\* session is still the cached one
C38_ExpiredKeptWitness ==
    /\ ner.call[1].handshake = "rejected" /\ ner.call[1].pc = "failed"
    /\ ner.session.present /\ is_expired(ner.session, ner.now)
    /\ ner.session = ner.call[1].seen
    /\ ner.notified = 0

-----------------------------------------------------------------------------
(* C36 *)

\* C36: for every channel count, every chunk handed to the codec holds
\* samples_per_frame samples per channel, that is samples_per_frame * channels
\* 16-bit samples, the size the encoder reads for the frame size it is given.
C36_ChunkHoldsFrameOfEveryChannel ==
    \A k \in 1..Len(pcm.chunks) :
        Len(pcm.chunks[k]) = pcm.samples_per_frame * pcm.channels * 2

\* on one channel the chunks have the size the encoder reads
C36_MonoWitness ==
    /\ pcm.channels = 1 /\ pcm.pc = "returned" /\ Len(pcm.chunks) >= 2
    /\ \A k \in 1..Len(pcm.chunks) : Len(pcm.chunks[k]) = pcm.samples_per_frame * 2

-----------------------------------------------------------------------------
(* C37 *)

\* the Error events the receive task has read
ErrorsReceived == {i \in (initRead + 1)..Len(inbound) : TypeOf(i) = "ERROR"}

\* the receive task meets the closed transport in this step
ReceiverMeetsClosure == recvPc = "recv" /\ wsClosed /\ recvPc' = "done"

\* C37: in a session, is_finished never goes back from true to false; error is
\* recorded only with is_finished; error is recorded exactly when the receive task
\* has read an Error event, and it is that event; and the step in which the receive
\* task meets the closed transport sets is_finished and leaves error unset.
C37_FinishedMonotoneErrorWithFinished ==
    /\ [][is_finished => is_finished']_vars
    /\ [](error # 0 => is_finished)
    /\ []((error # 0) <=> (ErrorsReceived # {}))
    /\ [](error # 0 => error \in ErrorsReceived)
    /\ [][ReceiverMeetsClosure => (is_finished' /\ error' = 0)]_vars

\* an Error event was read while the session was running: error and is_finished
\* are both set
C37_ErrorWitness ==
    /\ error # 0 /\ is_finished /\ TypeOf(error) = "ERROR"
    /\ senderPc # "idle"

-----------------------------------------------------------------------------
(* C39 *)

\* C39: when the send task has ended with an exception while the receive task is
\* still running, the caller's iteration eventually ends, and it ends by raising
\* that exception, in file mode and in live mode.
C39_SenderFailureReachesCaller ==
    (senderPc = "failed" /\ recvPc = "recv") ~> (callerPc = "done" /\ outcome = "raised")

====
